---- MODULE Spec2Model ----
(***************************************************************************)
(* Position accounting, funding settlement, the funding-rate controller,   *)
(* the insurance fund stake, the withdraw limits of a spot market, the     *)
(* history buffers and the fee ledger of the perpetual-futures clearing    *)
(* house (programs/clearing_house/src/controller/position.rs, funding.rs,  *)
(* math/amm.rs, math/insurance.rs, instructions/if_staker.rs, history.rs,  *)
(* lib.rs, and programs/drift/src/math/spot_withdraw.rs).                  *)
(*                                                                         *)
(* The accounts (perp_market, perp_positions) hold the committed state.    *)
(* A call works on an in-memory copy; the host commits the copy when the   *)
(* call returns Ok and discards it when the call returns an error.  `mem`  *)
(* keeps the in-memory copy as a failed call left it, `ret` what the last  *)
(* call returned.  `accounts` holds the accounts of the insurance fund     *)
(* instructions, or those of the fee ledger.                               *)
(***************************************************************************)
EXTENDS Integers, Sequences, FiniteSets, TLC

VARIABLES perp_market, perp_positions, ret, mem, steps, accounts

vars == <<perp_market, perp_positions, ret, mem, steps, accounts>>

(***************************************************************************)
(* Bounds                                                                  *)
(***************************************************************************)
\* width of the signed 64-bit fields of a position, scaled down
I64_MAX == 3
I64_MIN == -I64_MAX - 1
\* number of calls in a run
MaxSteps == 4

\* width of u128 amounts and of bn::U192 intermediates, scaled down to 4 and
\* 6 bits
U128_MAX == 15

U192_MAX == 63

\* the largest token amount, share count and vault balance of the insurance
\* fund
MaxVault == 8

\* the largest deposit TWAP of a spot market, next to QUOTE_PRECISION
MaxTwap == 24

\* the records a history buffer holds, where the program holds 1000
HistorySize == 2

Users == {"u1", "u2"}

\* the base and quote amounts of the PositionDelta handed to a call
BaseDeltas == {-2, -1, 0, 1, 2}

QuoteDeltas == {-1, 0, 1}

(***************************************************************************)
(* math/constants.rs, in the units of the model                            *)
(***************************************************************************)
ONE_HOUR == 3600

TWENTY_FOUR_HOUR == 86400

BID_ASK_SPREAD_PRECISION == 1000000

PRICE_TO_PEG_PRECISION_RATIO == 1

\* funding-rate units per price unit
FUNDING_RATE_BUFFER == 24

\* quote units per unit of (funding rate x base)
FUNDING_PAYMENT_PRECISION == 1

\* the clearing house may withdraw one part in two of the fees collected
SHARE_OF_FEES_ALLOCATED_TO_REPEG_DENOMINATOR == 2

(***************************************************************************)
(* Checked arithmetic (math/safe_math.rs, math/casting.rs)                 *)
(***************************************************************************)
Abs(x) == IF x < 0 THEN -x ELSE x

Sign(x) == IF x > 0 THEN 1 ELSE IF x < 0 THEN -1 ELSE 0

\* Rust integer division truncates toward zero
TruncDiv(a, b) ==
    IF (a >= 0) = (b > 0) THEN Abs(a) \div Abs(b) ELSE -(Abs(a) \div Abs(b))

InI64(x) == x >= I64_MIN /\ x <= I64_MAX

Ok == "Ok"

MathError == "MathError"

InvalidPositionLastFundingRate == "InvalidPositionLastFundingRate"

DefaultError == "DefaultError"

InvalidOracle == "InvalidOracle"

(***************************************************************************)
(* State records                                                           *)
(***************************************************************************)
\* PerpPosition::default()
DefaultPosition ==
    [base_asset_amount |-> 0,
     quote_asset_amount |-> 0,
     quote_entry_amount |-> 0,
     quote_break_even_amount |-> 0,
     last_cumulative_funding_rate |-> 0]

\* PositionDelta
PositionDelta(base, quote) ==
    [base_asset_amount |-> base, quote_asset_amount |-> quote]

(***************************************************************************)
(* math/position.rs, math/orders.rs, state/user.rs helpers                 *)
(***************************************************************************)
get_position_update_type(position, delta) ==
    IF position.base_asset_amount = 0 THEN "Open"
    ELSE IF Sign(position.base_asset_amount) = Sign(delta.base_asset_amount)
         THEN "Increase"
    ELSE IF Abs(position.base_asset_amount) > Abs(delta.base_asset_amount)
         THEN "Reduce"
    ELSE IF Abs(position.base_asset_amount) = Abs(delta.base_asset_amount)
         THEN "Close"
    ELSE "Flip"

get_direction(position) ==
    IF position.base_asset_amount >= 0 THEN "Long" ELSE "Short"

is_multiple_of_step_size(base_asset_amount, step_size) ==
    base_asset_amount % step_size = 0

\* a position slot that belongs to the market: it holds base or quote
is_for(position) ==
    position.base_asset_amount # 0 \/ position.quote_asset_amount # 0

(***************************************************************************)
(* controller/position.rs: update_quote_asset_amount                       *)
(* The result carries the in-memory position and market at return.         *)
(***************************************************************************)
update_quote_asset_amount(position, market, delta) ==
    IF delta = 0
    THEN [err |-> Ok, position |-> position, market |-> market]
    ELSE
      LET wasFlat == position.quote_asset_amount = 0 /\ position.base_asset_amount = 0
          m1 == IF wasFlat
                THEN [market EXCEPT !.number_of_users = @ + 1]
                ELSE market
          new_quote == position.quote_asset_amount + delta
          p1 == [position EXCEPT !.quote_asset_amount = new_quote]
          m2 == [m1 EXCEPT !.amm.quote_asset_amount = @ + delta]
          isFlat == new_quote = 0 /\ position.base_asset_amount = 0
      IN
        IF ~InI64(new_quote)
        THEN [err |-> MathError, position |-> position, market |-> m1]
        ELSE IF isFlat /\ m2.number_of_users = 0
        THEN [err |-> MathError, position |-> p1, market |-> m2]
        ELSE [err |-> Ok,
              position |-> p1,
              market |-> IF isFlat
                         THEN [m2 EXCEPT !.number_of_users = @ - 1]
                         ELSE m2]

(***************************************************************************)
(* controller/position.rs: update_position_and_market                      *)
(***************************************************************************)
\* a faulty FlipClosedQuote: the share is rounded down instead of toward zero
FlipClosedQuoteFloor(position, delta) ==
    (delta.quote_asset_amount * Abs(position.base_asset_amount))
        \div Abs(delta.base_asset_amount)

\* Flip: the share of the delta's quote amount that closes the old position
FlipClosedQuote(position, delta) ==
    TruncDiv(delta.quote_asset_amount * Abs(position.base_asset_amount),
             Abs(delta.base_asset_amount))

\* a faulty ReducedShare: the share is rounded down instead of toward zero
ReducedShareFloor(amount, position, delta) ==
    (amount * Abs(delta.base_asset_amount)) \div Abs(position.base_asset_amount)

\* Reduce | Close: the share of a quote amount that the reduced base carries
ReducedShare(amount, position, delta) ==
    TruncDiv(amount * Abs(delta.base_asset_amount), Abs(position.base_asset_amount))

\* "Update User": the new amounts computed into locals, and the realized pnl
PositionLocals(position, delta, update_type) ==
    LET new_quote_asset_amount ==
            position.quote_asset_amount + delta.quote_asset_amount
        new_base_asset_amount ==
            position.base_asset_amount + delta.base_asset_amount
        increase ==
            LET entry == position.quote_entry_amount + delta.quote_asset_amount
                break_even == position.quote_break_even_amount + delta.quote_asset_amount
            IN [ok |-> InI64(entry) /\ InI64(break_even),
                new_quote_entry_amount |-> entry,
                new_quote_break_even_amount |-> break_even,
                pnl |-> 0]
        reduce ==
            LET entry == position.quote_entry_amount
                           - ReducedShare(position.quote_entry_amount, position, delta)
                break_even == position.quote_break_even_amount
                           - ReducedShare(position.quote_break_even_amount,
                                          position, delta)
                entry_removed == position.quote_entry_amount - entry
                pnl == entry_removed + delta.quote_asset_amount
            IN [ok |-> InI64(entry) /\ InI64(break_even)
                        /\ InI64(entry_removed) /\ InI64(pnl),
                new_quote_entry_amount |-> entry,
                new_quote_break_even_amount |-> break_even,
                pnl |-> pnl]
        flip ==
            LET break_even == delta.quote_asset_amount
                                - FlipClosedQuote(position, delta)
                closing_quote == delta.quote_asset_amount - break_even
                pnl == position.quote_entry_amount + closing_quote
            IN [ok |-> InI64(break_even) /\ InI64(closing_quote) /\ InI64(pnl),
                new_quote_entry_amount |-> break_even,
                new_quote_break_even_amount |-> break_even,
                pnl |-> pnl]
        branch == IF update_type \in {"Open", "Increase"} THEN increase
                  ELSE IF update_type \in {"Reduce", "Close"} THEN reduce
                  ELSE flip
    IN [ok |-> InI64(new_quote_asset_amount) /\ InI64(new_base_asset_amount)
                 /\ branch.ok,
        new_quote_asset_amount |-> new_quote_asset_amount,
        new_base_asset_amount |-> new_base_asset_amount,
        new_quote_entry_amount |-> branch.new_quote_entry_amount,
        new_quote_break_even_amount |-> branch.new_quote_break_even_amount,
        pnl |-> branch.pnl]

\* a faulty OpenInterest: a Close leaves the counters alone
OpenInterestOpenOnly(market, position, update_type, locals) ==
    [err |-> Ok,
     market |-> IF update_type = "Open"
                THEN [market EXCEPT !.number_of_users_with_base = @ + 1,
                                    !.number_of_users =
                                        IF is_for(position) THEN @ ELSE @ + 1]
                ELSE market]

\* "Update Market open interest": the user counters, unsigned
OpenInterest(market, position, update_type, locals) ==
    IF update_type = "Open"
    THEN LET m1 == IF position.quote_asset_amount = 0
                      /\ position.base_asset_amount = 0
                   THEN [market EXCEPT !.number_of_users = @ + 1]
                   ELSE market
         IN [err |-> Ok,
             market |-> [m1 EXCEPT !.number_of_users_with_base = @ + 1]]
    ELSE IF update_type = "Close"
    THEN LET flat == locals.new_base_asset_amount = 0
                     /\ locals.new_quote_asset_amount = 0
             m1 == IF flat
                   THEN [market EXCEPT !.number_of_users = @ - 1]
                   ELSE market
         IN IF flat /\ market.number_of_users = 0
            THEN [err |-> MathError, market |-> market]
            ELSE IF m1.number_of_users_with_base = 0
            THEN [err |-> MathError, market |-> m1]
            ELSE [err |-> Ok,
                  market |-> [m1 EXCEPT !.number_of_users_with_base = @ - 1]]
    ELSE [err |-> Ok, market |-> market]

\* a faulty EntryRemoved: the whole old entry amount is taken off on a Reduce
EntryRemovedWhole(position, locals) ==
    position.quote_entry_amount

\* a faulty FlippedBase: the whole delta is added to the new side
FlippedBaseWholeDelta(position, delta, locals) ==
    delta.base_asset_amount

\* Reduce | Close: the entry amount taken off the side's aggregate
EntryRemoved(position, locals) ==
    position.quote_entry_amount - locals.new_quote_entry_amount

\* Flip: the base amount added to the aggregate of the side flipped into
FlippedBase(position, delta, locals) ==
    locals.new_base_asset_amount

\* the amm's quote_asset_amount and its long/short aggregates (128-bit fields)
MarketAggregates(market, position, delta, update_type, locals) ==
    LET amm == [market.amm EXCEPT
                  !.quote_asset_amount = @ + delta.quote_asset_amount]
        entry_removed == EntryRemoved(position, locals)
        break_even_removed ==
            position.quote_break_even_amount - locals.new_quote_break_even_amount
        new_amm ==
          IF update_type \in {"Open", "Increase"}
          THEN IF locals.new_base_asset_amount > 0
               THEN [amm EXCEPT
                       !.base_asset_amount_long = @ + delta.base_asset_amount,
                       !.quote_entry_amount_long = @ + delta.quote_asset_amount,
                       !.quote_break_even_amount_long = @ + delta.quote_asset_amount]
               ELSE [amm EXCEPT
                       !.base_asset_amount_short = @ + delta.base_asset_amount,
                       !.quote_entry_amount_short = @ + delta.quote_asset_amount,
                       !.quote_break_even_amount_short = @ + delta.quote_asset_amount]
          ELSE IF update_type \in {"Reduce", "Close"}
          THEN IF position.base_asset_amount > 0
               THEN [amm EXCEPT
                       !.base_asset_amount_long = @ + delta.base_asset_amount,
                       !.quote_entry_amount_long = @ - entry_removed,
                       !.quote_break_even_amount_long = @ - break_even_removed]
               ELSE [amm EXCEPT
                       !.base_asset_amount_short = @ + delta.base_asset_amount,
                       !.quote_entry_amount_short = @ - entry_removed,
                       !.quote_break_even_amount_short = @ - break_even_removed]
          ELSE IF locals.new_base_asset_amount > 0
               THEN [amm EXCEPT
                       !.base_asset_amount_short = @ - position.base_asset_amount,
                       !.base_asset_amount_long =
                            @ + FlippedBase(position, delta, locals),
                       !.quote_entry_amount_short = @ - position.quote_entry_amount,
                       !.quote_entry_amount_long = @ + locals.new_quote_entry_amount,
                       !.quote_break_even_amount_short =
                            @ - position.quote_break_even_amount,
                       !.quote_break_even_amount_long =
                            @ + locals.new_quote_break_even_amount]
               ELSE [amm EXCEPT
                       !.base_asset_amount_long = @ - position.base_asset_amount,
                       !.base_asset_amount_short =
                            @ + FlippedBase(position, delta, locals),
                       !.quote_entry_amount_long = @ - position.quote_entry_amount,
                       !.quote_entry_amount_short = @ + locals.new_quote_entry_amount,
                       !.quote_break_even_amount_long =
                            @ - position.quote_break_even_amount,
                       !.quote_break_even_amount_short =
                            @ + locals.new_quote_break_even_amount]
    IN [market EXCEPT !.amm = new_amm]

\* a faulty ValidateFundingRate: the stored rate is never compared
ValidateFundingRateSkipped(position, market) ==
    Ok

\* "Validate that user funding rate is up to date before modifying"
ValidateFundingRate(position, market) ==
    LET rate == IF get_direction(position) = "Long"
                THEN market.amm.cumulative_funding_rate_long
                ELSE market.amm.cumulative_funding_rate_short
    IN IF get_direction(position) = "Long" /\ position.base_asset_amount = 0
       THEN Ok
       ELSE IF ~InI64(rate) THEN MathError
       ELSE IF position.last_cumulative_funding_rate = rate THEN Ok
       ELSE InvalidPositionLastFundingRate

\* a faulty StoreFundingRate: a new side always takes the long accumulator
StoreFundingRateLongOnly(position, market, update_type, locals) ==
    [err |-> Ok,
     position |-> IF update_type \in {"Open", "Flip"}
                  THEN [position EXCEPT !.last_cumulative_funding_rate =
                                           market.amm.cumulative_funding_rate_long]
                  ELSE position]

\* "Update user position": the stored funding rate, written ahead of the amounts
StoreFundingRate(position, market, update_type, locals) ==
    LET rate == IF locals.new_base_asset_amount > 0
                THEN market.amm.cumulative_funding_rate_long
                ELSE market.amm.cumulative_funding_rate_short
    IN IF update_type = "Close"
       THEN [err |-> Ok,
             position |-> [position EXCEPT !.last_cumulative_funding_rate = 0]]
       ELSE IF update_type \in {"Open", "Flip"}
       THEN IF InI64(rate)
            THEN [err |-> Ok,
                  position |->
                     [position EXCEPT !.last_cumulative_funding_rate = rate]]
            ELSE [err |-> MathError, position |-> position]
       ELSE [err |-> Ok, position |-> position]

\* the amount handed to is_multiple_of_step_size
StepSizeCheckedAmount(position, locals) ==
    Abs(position.base_asset_amount)

update_position_and_market(position, market, delta) ==
    IF delta.base_asset_amount = 0
    THEN LET r == update_quote_asset_amount(position, market,
                                            delta.quote_asset_amount)
         IN [err |-> r.err,
             value |-> IF r.err = Ok THEN delta.quote_asset_amount ELSE 0,
             update_type |-> "None",
             position |-> r.position,
             market |-> r.market]
    ELSE
      LET update_type == get_position_update_type(position, delta)
          locals == PositionLocals(position, delta, update_type)
          oi == OpenInterest(market, position, update_type, locals)
          m2 == MarketAggregates(oi.market, position, delta, update_type, locals)
          funding == ValidateFundingRate(position, m2)
          stored == StoreFundingRate(position, m2, update_type, locals)
          fail(err, p, m) == [err |-> err, value |-> 0, update_type |-> update_type,
                              position |-> p, market |-> m]
      IN
        IF ~locals.ok THEN fail(MathError, position, market)
        ELSE IF oi.err # Ok THEN fail(oi.err, position, oi.market)
        ELSE IF funding # Ok THEN fail(funding, position, m2)
        ELSE IF stored.err # Ok THEN fail(stored.err, stored.position, m2)
        ELSE IF ~is_multiple_of_step_size(
                    StepSizeCheckedAmount(stored.position, locals),
                    m2.amm.order_step_size)
        THEN fail(DefaultError, stored.position, m2)
        ELSE [err |-> Ok,
              value |-> locals.pnl,
              update_type |-> update_type,
              position |-> [stored.position EXCEPT
                   !.quote_asset_amount = locals.new_quote_asset_amount,
                   !.quote_entry_amount = locals.new_quote_entry_amount,
                   !.quote_break_even_amount = locals.new_quote_break_even_amount,
                   !.base_asset_amount = locals.new_base_asset_amount],
              market |-> m2]

(***************************************************************************)
(* controller/funding.rs: settle_funding_payment                           *)
(***************************************************************************)
\* math/funding.rs: longs pay when their accumulator rises, shorts receive
calculate_funding_payment(amm_cumulative_funding_rate, market_position) ==
    LET funding_rate_delta ==
            amm_cumulative_funding_rate - market_position.last_cumulative_funding_rate
        magnitude == (Abs(funding_rate_delta)
                        * Abs(market_position.base_asset_amount))
                     \div FUNDING_PAYMENT_PRECISION
    IN -Sign(funding_rate_delta) * Sign(market_position.base_asset_amount)
          * magnitude

\* a faulty settle_funding_payment: a flat position is not skipped
settle_funding_payment_unskipped(position, market) ==
    IF ~is_for(position)
    THEN [err |-> Ok, position |-> position, market |-> market]
    ELSE
      LET amm_cumulative_funding_rate ==
              IF position.base_asset_amount > 0
              THEN market.amm.cumulative_funding_rate_long
              ELSE market.amm.cumulative_funding_rate_short
      IN IF amm_cumulative_funding_rate # position.last_cumulative_funding_rate
         THEN update_quote_asset_amount(
                  [position EXCEPT !.last_cumulative_funding_rate =
                                        amm_cumulative_funding_rate],
                  market,
                  calculate_funding_payment(amm_cumulative_funding_rate, position))
         ELSE [err |-> Ok, position |-> position, market |-> market]

settle_funding_payment(position, market) ==
    IF ~is_for(position) \/ position.base_asset_amount = 0
    THEN [err |-> Ok, position |-> position, market |-> market]
    ELSE
      LET amm_cumulative_funding_rate ==
              IF position.base_asset_amount > 0
              THEN market.amm.cumulative_funding_rate_long
              ELSE market.amm.cumulative_funding_rate_short
      IN IF amm_cumulative_funding_rate # position.last_cumulative_funding_rate
         THEN update_quote_asset_amount(
                  [position EXCEPT !.last_cumulative_funding_rate =
                                        amm_cumulative_funding_rate],
                  market,
                  calculate_funding_payment(amm_cumulative_funding_rate, position))
         ELSE [err |-> Ok, position |-> position, market |-> market]

(***************************************************************************)
(* math/stats.rs, math/helpers.rs, math/amm.rs: prices and TWAPs           *)
(***************************************************************************)
Min(a, b) == IF a < b THEN a ELSE b

Max(a, b) == IF a > b THEN a ELSE b

calculate_weighted_average(data1, data2, weight1, weight2) ==
    TruncDiv(data1 * weight1 + data2 * weight2, weight1 + weight2)

calculate_new_twap(current_price, current_ts, last_twap, last_ts, period) ==
    LET since_last == Max(1, current_ts - last_ts)
        from_start == Max(1, period - since_last)
    IN calculate_weighted_average(current_price, last_twap, since_last, from_start)

calculate_rolling_sum(data1, data2, weight1_numer, weight1_denom) ==
    (data1 * Max(0, weight1_denom - weight1_numer)) \div weight1_denom + data2

on_the_hour_update(now, last_update_ts, update_period) ==
    LET time_since_last_update == now - last_update_ts
        last_update_delay == last_update_ts % update_period
        max_delay_for_next_period == update_period \div 3
        two_funding_periods == update_period * 2
        wait == IF last_update_delay > max_delay_for_next_period
                THEN two_funding_periods - last_update_delay
                ELSE update_period - last_update_delay
        next_update_wait ==
            IF update_period > 1 /\ last_update_delay # 0
            THEN IF wait > two_funding_periods THEN wait - update_period ELSE wait
            ELSE update_period
    IN Max(0, next_update_wait - time_since_last_update)

calculate_price(quote_asset_reserve, base_asset_reserve, peg_multiplier) ==
    (quote_asset_reserve * peg_multiplier * PRICE_TO_PEG_PRECISION_RATIO)
        \div base_asset_reserve

reserve_price(amm) ==
    calculate_price(amm.quote_asset_reserve, amm.base_asset_reserve,
                    amm.peg_multiplier)

ask_price(amm, price) ==
    (price * (BID_ASK_SPREAD_PRECISION + amm.long_spread))
        \div BID_ASK_SPREAD_PRECISION

bid_price(amm, price) ==
    (price * (BID_ASK_SPREAD_PRECISION - amm.short_spread))
        \div BID_ASK_SPREAD_PRECISION

sanitize_new_price(new_price, last_price_twap) ==
    IF last_price_twap = 0 THEN new_price
    ELSE LET new_price_spread == new_price - last_price_twap
             price_twap_33pct == TruncDiv(last_price_twap, 3)
         IN IF Abs(new_price_spread) > Abs(price_twap_33pct)
            THEN IF new_price > last_price_twap
                 THEN last_price_twap + price_twap_33pct
                 ELSE last_price_twap - price_twap_33pct
            ELSE new_price

normalise_oracle_price(amm, oracle_price_data, price) ==
    LET reserve_price_2p5_bps == TruncDiv(price, 4000)
        conf_int == oracle_price_data.confidence
        oracle_price == oracle_price_data.price
    IN IF price > oracle_price
       THEN Min(Max(price - reserve_price_2p5_bps, oracle_price),
                oracle_price + conf_int)
       ELSE Max(Min(price + reserve_price_2p5_bps, oracle_price),
                oracle_price - conf_int)

calculate_oracle_reserve_price_spread_pct(amm, oracle_price_data, price) ==
    TruncDiv((price - oracle_price_data.price) * BID_ASK_SPREAD_PRECISION, price)

calculate_oracle_twap_5min_mark_spread_pct(amm, price) ==
    TruncDiv((price - amm.historical_oracle_data.last_oracle_price_twap_5min)
                * BID_ASK_SPREAD_PRECISION, price)

is_oracle_mark_too_divergent(price_spread_pct, oracle_guard_rails) ==
    Abs(price_spread_pct)
        > (oracle_guard_rails.mark_oracle_divergence_numerator
             * BID_ASK_SPREAD_PRECISION)
          \div oracle_guard_rails.mark_oracle_divergence_denominator

\* OracleGuardRails::default().price_divergence
DefaultGuardRails ==
    [mark_oracle_divergence_numerator |-> 1,
     mark_oracle_divergence_denominator |-> 10]

\* math/oracle.rs: funding is blocked while the oracle is not valid or the
\* reserve price is too far from the oracle's five-minute TWAP
block_operation(market, oracle_price_data, guard_rails, price) ==
    \/ ~oracle_price_data.has_sufficient_number_of_data_points
    \/ is_oracle_mark_too_divergent(
           calculate_oracle_twap_5min_mark_spread_pct(market.amm, price),
           guard_rails)

calculate_new_oracle_price_twap(amm, now, oracle_price, twap_period) ==
    LET hod == amm.historical_oracle_data
        last_mark_twap == IF twap_period = "FundingPeriod"
                          THEN amm.last_mark_price_twap
                          ELSE amm.last_mark_price_twap_5min
        last_oracle_twap == IF twap_period = "FundingPeriod"
                            THEN hod.last_oracle_price_twap
                            ELSE hod.last_oracle_price_twap_5min
        period == IF twap_period = "FundingPeriod"
                  THEN amm.funding_period ELSE 60 * 5
        since_last == Max(1, now - hod.last_oracle_price_twap_ts)
        from_start == Max(0, period - since_last)
        since_last_valid == amm.last_mark_price_twap_ts - hod.last_oracle_price_twap_ts
        from_start_valid == Max(1, period - since_last_valid)
        interpolated_oracle_price ==
            IF amm.last_mark_price_twap_ts > hod.last_oracle_price_twap_ts
            THEN calculate_weighted_average(last_mark_twap, oracle_price,
                                            since_last_valid, from_start_valid)
            ELSE oracle_price
    IN calculate_weighted_average(interpolated_oracle_price, last_oracle_twap,
                                  since_last, from_start)

\* update_oracle_price_twap that resets the TWAP timestamp instead of stamping
\* it with now
update_oracle_price_twap_unstamped(amm, now, oracle_price_data, price) ==
    LET oracle_price == normalise_oracle_price(amm, oracle_price_data, price)
        capped_oracle_update_price ==
            sanitize_new_price(oracle_price,
                               amm.historical_oracle_data.last_oracle_price_twap)
        oracle_price_twap ==
            calculate_new_oracle_price_twap(amm, now, capped_oracle_update_price,
                                            "FundingPeriod")
        oracle_price_twap_5min ==
            calculate_new_oracle_price_twap(amm, now, capped_oracle_update_price,
                                            "FiveMin")
    IN IF capped_oracle_update_price > 0 /\ oracle_price > 0
       THEN IF price = 0
            THEN [err |-> MathError,
                  amm |-> [amm EXCEPT
                     !.last_oracle_normalised_price = capped_oracle_update_price,
                     !.historical_oracle_data.last_oracle_price =
                          oracle_price_data.price],
                  value |-> 0]
            ELSE [err |-> Ok,
                  amm |-> [amm EXCEPT
                     !.last_oracle_normalised_price = capped_oracle_update_price,
                     !.historical_oracle_data =
                        [last_oracle_price |-> oracle_price_data.price,
                         last_oracle_delay |-> oracle_price_data.delay,
                         last_oracle_price_twap_5min |-> oracle_price_twap_5min,
                         last_oracle_price_twap |-> oracle_price_twap,
                         last_oracle_price_twap_ts |-> 0],
                     !.last_oracle_conf_pct =
                        (oracle_price_data.confidence * BID_ASK_SPREAD_PRECISION)
                            \div price,
                     !.last_oracle_reserve_price_spread_pct =
                        calculate_oracle_reserve_price_spread_pct(
                            amm, oracle_price_data, price)],
                  value |-> oracle_price_twap]
       ELSE [err |-> Ok, amm |-> amm,
             value |-> amm.historical_oracle_data.last_oracle_price_twap]

\* returns the amm at return and the oracle TWAP
update_oracle_price_twap(amm, now, oracle_price_data, price) ==
    LET oracle_price == normalise_oracle_price(amm, oracle_price_data, price)
        capped_oracle_update_price ==
            sanitize_new_price(oracle_price,
                               amm.historical_oracle_data.last_oracle_price_twap)
        oracle_price_twap ==
            calculate_new_oracle_price_twap(amm, now, capped_oracle_update_price,
                                            "FundingPeriod")
        oracle_price_twap_5min ==
            calculate_new_oracle_price_twap(amm, now, capped_oracle_update_price,
                                            "FiveMin")
    IN IF capped_oracle_update_price > 0 /\ oracle_price > 0
       THEN IF price = 0
            THEN [err |-> MathError,
                  amm |-> [amm EXCEPT
                     !.last_oracle_normalised_price = capped_oracle_update_price,
                     !.historical_oracle_data.last_oracle_price =
                          oracle_price_data.price],
                  value |-> 0]
            ELSE [err |-> Ok,
                  amm |-> [amm EXCEPT
                     !.last_oracle_normalised_price = capped_oracle_update_price,
                     !.historical_oracle_data =
                        [last_oracle_price |-> oracle_price_data.price,
                         last_oracle_delay |-> oracle_price_data.delay,
                         last_oracle_price_twap_5min |-> oracle_price_twap_5min,
                         last_oracle_price_twap |-> oracle_price_twap,
                         last_oracle_price_twap_ts |-> now],
                     !.last_oracle_conf_pct =
                        (oracle_price_data.confidence * BID_ASK_SPREAD_PRECISION)
                            \div price,
                     !.last_oracle_reserve_price_spread_pct =
                        calculate_oracle_reserve_price_spread_pct(
                            amm, oracle_price_data, price)],
                  value |-> oracle_price_twap]
       ELSE [err |-> Ok, amm |-> amm,
             value |-> amm.historical_oracle_data.last_oracle_price_twap]

update_amm_mark_std(amm, now, price, ewma) ==
    LET since_last == Max(1, now - amm.last_mark_price_twap_ts)
    IN [amm EXCEPT !.mark_std =
           calculate_rolling_sum(amm.mark_std, Abs(price - ewma),
                                 Max(ONE_HOUR, since_last), ONE_HOUR)]

\* update_mark_twap that folds the bid into the previous ask TWAP and the ask
\* into the previous bid TWAP
update_mark_twap_crossed(amm, now, trade_price, direction) ==
    LET last_oracle_price == amm.historical_oracle_data.last_oracle_price
        discount == Min(amm.base_spread, amm.short_spread \div 2)
        premium == Min(amm.base_spread, amm.long_spread \div 2)
        best_bid_estimate == IF trade_price > last_oracle_price
                             THEN last_oracle_price - discount
                             ELSE trade_price
        best_ask_estimate == IF trade_price < last_oracle_price
                             THEN last_oracle_price + premium
                             ELSE trade_price
        bid == IF direction = "Long" THEN best_bid_estimate ELSE trade_price
        ask == IF direction = "Short" THEN best_ask_estimate ELSE trade_price
        bid_price_capped_update == sanitize_new_price(bid, amm.last_bid_price_twap)
        ask_price_capped_update == sanitize_new_price(ask, amm.last_ask_price_twap)
        bid_twap == calculate_new_twap(bid_price_capped_update, now,
                                       amm.last_ask_price_twap,
                                       amm.last_mark_price_twap_ts,
                                       amm.funding_period)
        ask_twap == calculate_new_twap(ask_price_capped_update, now,
                                       amm.last_bid_price_twap,
                                       amm.last_mark_price_twap_ts,
                                       amm.funding_period)
        mid_twap == TruncDiv(bid_twap + ask_twap, 2)
        amm1 == [amm EXCEPT !.last_bid_price_twap = bid_twap]
        amm2 == [amm1 EXCEPT !.last_ask_price_twap = ask_twap]
        amm3 == update_amm_mark_std(amm2, now, trade_price, amm2.last_mark_price_twap)
        twap_5min == calculate_new_twap(
                         TruncDiv(bid_price_capped_update + ask_price_capped_update, 2),
                         now, amm3.last_mark_price_twap_5min,
                         amm3.last_mark_price_twap_ts, 60 * 5)
        fail(err, a) == [err |-> err, amm |-> a, value |-> 0]
    IN IF last_oracle_price < 0 THEN fail(MathError, amm)
       ELSE IF last_oracle_price = 0 THEN fail(InvalidOracle, amm)
       ELSE IF best_bid_estimate < 0 THEN fail(MathError, amm)
       ELSE IF best_bid_estimate > best_ask_estimate THEN fail(DefaultError, amm)
       ELSE IF bid > ask THEN fail(DefaultError, amm)
       ELSE IF bid_price_capped_update > ask_price_capped_update
            THEN fail(DefaultError, amm)
       ELSE IF bid_twap < 0 THEN fail(MathError, amm)
       ELSE IF ask_twap < 0 THEN fail(MathError, amm1)
       ELSE IF mid_twap < 0 \/ twap_5min < 0 THEN fail(MathError, amm3)
       ELSE [err |-> Ok,
             amm |-> [amm3 EXCEPT !.last_mark_price_twap = mid_twap,
                                  !.last_mark_price_twap_5min = twap_5min,
                                  !.last_mark_price_twap_ts = now],
             value |-> mid_twap]

\* returns the amm at return and the mark TWAP; direction is "Long", "Short"
\* or "None"
update_mark_twap(amm, now, trade_price, direction) ==
    LET last_oracle_price == amm.historical_oracle_data.last_oracle_price
        discount == Min(amm.base_spread, amm.short_spread \div 2)
        premium == Min(amm.base_spread, amm.long_spread \div 2)
        best_bid_estimate == IF trade_price > last_oracle_price
                             THEN last_oracle_price - discount
                             ELSE trade_price
        best_ask_estimate == IF trade_price < last_oracle_price
                             THEN last_oracle_price + premium
                             ELSE trade_price
        bid == IF direction = "Long" THEN best_bid_estimate ELSE trade_price
        ask == IF direction = "Short" THEN best_ask_estimate ELSE trade_price
        bid_price_capped_update == sanitize_new_price(bid, amm.last_bid_price_twap)
        ask_price_capped_update == sanitize_new_price(ask, amm.last_ask_price_twap)
        bid_twap == calculate_new_twap(bid_price_capped_update, now,
                                       amm.last_bid_price_twap,
                                       amm.last_mark_price_twap_ts,
                                       amm.funding_period)
        ask_twap == calculate_new_twap(ask_price_capped_update, now,
                                       amm.last_ask_price_twap,
                                       amm.last_mark_price_twap_ts,
                                       amm.funding_period)
        mid_twap == TruncDiv(bid_twap + ask_twap, 2)
        amm1 == [amm EXCEPT !.last_bid_price_twap = bid_twap]
        amm2 == [amm1 EXCEPT !.last_ask_price_twap = ask_twap]
        amm3 == update_amm_mark_std(amm2, now, trade_price, amm2.last_mark_price_twap)
        twap_5min == calculate_new_twap(
                         TruncDiv(bid_price_capped_update + ask_price_capped_update, 2),
                         now, amm3.last_mark_price_twap_5min,
                         amm3.last_mark_price_twap_ts, 60 * 5)
        fail(err, a) == [err |-> err, amm |-> a, value |-> 0]
    IN IF last_oracle_price < 0 THEN fail(MathError, amm)
       ELSE IF last_oracle_price = 0 THEN fail(InvalidOracle, amm)
       ELSE IF best_bid_estimate < 0 THEN fail(MathError, amm)
       ELSE IF best_bid_estimate > best_ask_estimate THEN fail(DefaultError, amm)
       ELSE IF bid > ask THEN fail(DefaultError, amm)
       ELSE IF bid_price_capped_update > ask_price_capped_update
            THEN fail(DefaultError, amm)
       ELSE IF bid_twap < 0 THEN fail(MathError, amm)
       ELSE IF ask_twap < 0 THEN fail(MathError, amm1)
       ELSE IF mid_twap < 0 \/ twap_5min < 0 THEN fail(MathError, amm3)
       ELSE [err |-> Ok,
             amm |-> [amm3 EXCEPT !.last_mark_price_twap = mid_twap,
                                  !.last_mark_price_twap_5min = twap_5min,
                                  !.last_mark_price_twap_ts = now],
             value |-> mid_twap]

(***************************************************************************)
(* controller/funding.rs: update_funding_rate                              *)
(***************************************************************************)
\* math/funding.rs: both sides accrue funding_rate while the users' net
\* position pays the protocol; otherwise the receiving side accrues a capped
\* rate: funding_rate itself when the fee pool covers the imbalance, and only
\* the paying side's payments shared over the receiving side when it does not
calculate_funding_rate_long_short(market, funding_rate, fee_pool_covers) ==
    LET amm == market.amm
        net == amm.base_asset_amount_long + amm.base_asset_amount_short
        uncapped_funding_pnl == funding_rate * net
        payers == IF funding_rate > 0 THEN Abs(amm.base_asset_amount_long)
                  ELSE Abs(amm.base_asset_amount_short)
        receivers == IF funding_rate > 0 THEN Abs(amm.base_asset_amount_short)
                     ELSE Abs(amm.base_asset_amount_long)
        capped_funding_rate ==
            IF fee_pool_covers THEN funding_rate
            ELSE TruncDiv(funding_rate * payers, receivers)
    IN IF uncapped_funding_pnl >= 0
       THEN [funding_rate_long |-> funding_rate,
             funding_rate_short |-> funding_rate]
       ELSE [funding_rate_long |-> IF funding_rate < 0 THEN capped_funding_rate
                                   ELSE funding_rate,
             funding_rate_short |-> IF funding_rate > 0 THEN capped_funding_rate
                                    ELSE funding_rate]

\* a faulty valid_funding_update: the pause flag is not looked at
valid_funding_update_unpaused(market, oracle_price_data, now, funding_paused) ==
    /\ ~block_operation(market, oracle_price_data, DefaultGuardRails,
                        reserve_price(market.amm))
    /\ on_the_hour_update(now, market.amm.last_funding_rate_ts,
                          market.amm.funding_period) = 0

\* the gate: not paused, oracle not blocked, on the funding boundary
valid_funding_update(market, oracle_price_data, now, funding_paused) ==
    /\ ~funding_paused
    /\ ~block_operation(market, oracle_price_data, DefaultGuardRails,
                        reserve_price(market.amm))
    /\ on_the_hour_update(now, market.amm.last_funding_rate_ts,
                          market.amm.funding_period) = 0

\* "price relates to execution premium / direction"
execution_premium_price(amm, price) ==
    IF amm.long_spread > amm.short_spread THEN ask_price(amm, price)
    ELSE IF amm.long_spread < amm.short_spread THEN bid_price(amm, price)
    ELSE price

execution_premium_direction(amm) ==
    IF amm.long_spread > amm.short_spread THEN "Long"
    ELSE IF amm.long_spread < amm.short_spread THEN "Short"
    ELSE "None"

\* a faulty calculate_funding_rate: the price spread is not clamped
calculate_funding_rate_unclamped(market, mid_price_twap, oracle_price_twap) ==
    LET period_adjustment ==
            (24 * ONE_HOUR) \div Max(ONE_HOUR, market.amm.funding_period)
        price_spread == mid_price_twap - oracle_price_twap
    IN TruncDiv(price_spread * FUNDING_RATE_BUFFER, period_adjustment)

\* a faulty calculate_funding_rate: the spread is taken oracle minus mark
calculate_funding_rate_reversed(market, mid_price_twap, oracle_price_twap) ==
    LET period_adjustment ==
            (24 * ONE_HOUR) \div Max(ONE_HOUR, market.amm.funding_period)
        price_spread == oracle_price_twap - mid_price_twap
        max_price_spread == TruncDiv(oracle_price_twap, 33)
        clamped_price_spread ==
            Max(-max_price_spread, Min(price_spread, max_price_spread))
    IN TruncDiv(clamped_price_spread * FUNDING_RATE_BUFFER, period_adjustment)

\* the price spread of the two TWAPs, clamped to 1/33 of the oracle TWAP and
\* spread over the funding periods of a day
calculate_funding_rate(market, mid_price_twap, oracle_price_twap) ==
    LET period_adjustment ==
            (24 * ONE_HOUR) \div Max(ONE_HOUR, market.amm.funding_period)
        price_spread == mid_price_twap - oracle_price_twap
        max_price_spread == TruncDiv(oracle_price_twap, 33)
        clamped_price_spread ==
            Max(-max_price_spread, Min(price_spread, max_price_spread))
    IN TruncDiv(clamped_price_spread * FUNDING_RATE_BUFFER, period_adjustment)

\* the accumulators, the last rates and the timestamp written by an update
record_funding_rate(market, amm, now, funding_rate, split) ==
    [market EXCEPT
       !.amm = [amm EXCEPT
          !.cumulative_funding_rate_long = @ + split.funding_rate_long,
          !.cumulative_funding_rate_short = @ + split.funding_rate_short,
          !.last_funding_rate = funding_rate,
          !.last_funding_rate_long = split.funding_rate_long,
          !.last_funding_rate_short = split.funding_rate_short,
          !.last_24h_avg_funding_rate =
              calculate_new_twap(funding_rate, now, amm.last_24h_avg_funding_rate,
                                 amm.last_funding_rate_ts, TWENTY_FOUR_HOUR),
          !.last_funding_rate_ts = now,
          !.net_revenue_since_last_funding = 0],
       !.next_funding_rate_record_id = @ + 1]

\* the update once both TWAPs are known: t is update_mark_twap's result
\* (formulaic_update_k is skipped: curve_update_intensity is 0)
apply_funding_rate(market, now, fee_pool_covers, oracle_price_twap, t, funding_rate) ==
    IF t.err # Ok
    THEN [err |-> t.err, value |-> FALSE, market |-> [market EXCEPT !.amm = t.amm]]
    ELSE [err |-> Ok, value |-> TRUE,
          market |-> record_funding_rate(
                         market, t.amm, now, funding_rate,
                         calculate_funding_rate_long_short(market, funding_rate,
                                                           fee_pool_covers))]

\* the update once the oracle TWAP is known: o is update_oracle_price_twap's
\* result, t update_mark_twap's
update_mark_and_funding(market, now, fee_pool_covers, o, t) ==
    IF o.err # Ok
    THEN [err |-> o.err, value |-> FALSE, market |-> [market EXCEPT !.amm = o.amm]]
    ELSE apply_funding_rate(market, now, fee_pool_covers, o.value, t,
                            calculate_funding_rate(market, t.value, o.value))

update_twaps_and_funding(market, now, fee_pool_covers, price, o) ==
    update_mark_and_funding(
        market, now, fee_pool_covers, o,
        update_mark_twap(o.amm, now, execution_premium_price(o.amm, price),
                         execution_premium_direction(o.amm)))

\* returns the market at return and the flag "funding was updated"
update_funding_rate(market, oracle_price_data, now, funding_paused, fee_pool_covers) ==
    IF valid_funding_update(market, oracle_price_data, now, funding_paused)
    THEN update_twaps_and_funding(
             market, now, fee_pool_covers, reserve_price(market.amm),
             update_oracle_price_twap(market.amm, now, oracle_price_data,
                                      reserve_price(market.amm)))
    ELSE [err |-> Ok, value |-> FALSE, market |-> market]

(***************************************************************************)
(* math/amm.rs: spreads                                                    *)
(* The u128 / i128 operations are far from their width at the amounts      *)
(* explored, so the checked operations do not fail on overflow here.       *)
(***************************************************************************)
DEFAULT_LARGE_BID_ASK_FACTOR == 10 * BID_ASK_SPREAD_PRECISION

MAX_BID_ASK_INVENTORY_SKEW_FACTOR == 10 * BID_ASK_SPREAD_PRECISION

AMM_TIMES_PEG_TO_QUOTE_PRECISION_RATIO == 100

AMM_TO_QUOTE_PRECISION_RATIO == 1

PRICE_PRECISION == 100

_calculate_market_open_bids_asks(base_asset_reserve, min_base_asset_reserve, max_base_asset_reserve) ==
    [max_asks |-> IF base_asset_reserve < max_base_asset_reserve
                  THEN -(max_base_asset_reserve - base_asset_reserve)
                  ELSE 0,
     max_bids |-> IF base_asset_reserve > min_base_asset_reserve
                  THEN base_asset_reserve - min_base_asset_reserve
                  ELSE 0]

\* a faulty cap_to_max_spread: the spreads are handed back as they came
cap_to_max_spread_uncapped(long_spread, short_spread, max_spread) ==
    [err |-> Ok, long_spread |-> long_spread, short_spread |-> short_spread]

\* a faulty cap_to_max_spread: the larger side gives way first, the smaller
\* side keeps what it had up to max_spread
cap_to_max_spread_larger_first(long_spread, short_spread, max_spread) ==
    IF long_spread + short_spread > max_spread
    THEN IF long_spread > short_spread
         THEN [err |-> Ok,
               long_spread |-> max_spread - Min(max_spread, short_spread),
               short_spread |-> Min(max_spread, short_spread)]
         ELSE [err |-> Ok,
               long_spread |-> Min(max_spread, long_spread),
               short_spread |-> max_spread - Min(max_spread, long_spread)]
    ELSE [err |-> Ok, long_spread |-> long_spread, short_spread |-> short_spread]

\* the capped pair, before the final validation
capped_spreads(long_spread, short_spread, max_spread) ==
    IF long_spread + short_spread > max_spread
    THEN IF long_spread > short_spread
         THEN [long_spread |-> Min(max_spread, long_spread),
               short_spread |-> max_spread - Min(max_spread, long_spread)]
         ELSE [long_spread |-> max_spread - Min(max_spread, short_spread),
               short_spread |-> Min(max_spread, short_spread)]
    ELSE [long_spread |-> long_spread, short_spread |-> short_spread]

validate_total_spread(capped, max_spread) ==
    IF capped.long_spread + capped.short_spread <= max_spread
    THEN [err |-> Ok, long_spread |-> capped.long_spread,
          short_spread |-> capped.short_spread]
    ELSE [err |-> DefaultError, long_spread |-> 0, short_spread |-> 0]

cap_to_max_spread(long_spread, short_spread, max_spread) ==
    validate_total_spread(capped_spreads(long_spread, short_spread, max_spread),
                          max_spread)

\* "oracle retreat": the half spreads, one of them floored at the oracle
\* spread plus the oracle confidence
oracle_retreat(base_spread, last_oracle_reserve_price_spread_pct, last_oracle_conf_pct) ==
    LET half == base_spread \div 2
        retreat == Abs(last_oracle_reserve_price_spread_pct) + last_oracle_conf_pct
    IN IF last_oracle_reserve_price_spread_pct < 0
       THEN [long_spread |-> Max(half, retreat), short_spread |-> half]
       ELSE [long_spread |-> half, short_spread |-> Max(half, retreat)]

\* "inventory scale"
inventory_scale_capped(net_base_asset_amount, open) ==
    LET min_side_liquidity == Min(open.max_bids, Abs(open.max_asks))
        inventory_scale ==
            Abs(TruncDiv(net_base_asset_amount * DEFAULT_LARGE_BID_ASK_FACTOR,
                         Max(min_side_liquidity, 1)))
    IN Min(MAX_BID_ASK_INVENTORY_SKEW_FACTOR,
           BID_ASK_SPREAD_PRECISION + inventory_scale)

\* "effective leverage scale"
effective_leverage_capped(quote_asset_reserve, terminal_quote_asset_reserve, peg_multiplier, net_base_asset_amount, price, total_fee_minus_distributions) ==
    LET net_base_asset_value ==
            TruncDiv((quote_asset_reserve - terminal_quote_asset_reserve)
                        * peg_multiplier,
                     AMM_TIMES_PEG_TO_QUOTE_PRECISION_RATIO)
        local_base_asset_value ==
            TruncDiv(net_base_asset_amount * price,
                     AMM_TO_QUOTE_PRECISION_RATIO * PRICE_PRECISION)
        effective_leverage ==
            TruncDiv(Max(0, local_base_asset_value - net_base_asset_value)
                        * BID_ASK_SPREAD_PRECISION,
                     Max(0, total_fee_minus_distributions) + 1)
    IN Min(MAX_BID_ASK_INVENTORY_SKEW_FACTOR,
           BID_ASK_SPREAD_PRECISION + (Max(0, effective_leverage) + 1))

\* the side that carries the amm's inventory is scaled by the inventory skew
scale_by_inventory(spreads, net_base_asset_amount, scale) ==
    IF net_base_asset_amount > 0
    THEN [spreads EXCEPT !.long_spread = (@ * scale) \div BID_ASK_SPREAD_PRECISION]
    ELSE IF net_base_asset_amount < 0
    THEN [spreads EXCEPT !.short_spread = (@ * scale) \div BID_ASK_SPREAD_PRECISION]
    ELSE spreads

\* both sides are widened when the fee pool is empty, else one side is scaled
\* by the effective leverage
scale_by_leverage(spreads, net_base_asset_amount, total_fee_minus_distributions, scale) ==
    IF total_fee_minus_distributions <= 0
    THEN [long_spread |-> (spreads.long_spread * DEFAULT_LARGE_BID_ASK_FACTOR)
                             \div BID_ASK_SPREAD_PRECISION,
          short_spread |-> (spreads.short_spread * DEFAULT_LARGE_BID_ASK_FACTOR)
                              \div BID_ASK_SPREAD_PRECISION]
    ELSE IF net_base_asset_amount > 0
    THEN [spreads EXCEPT !.long_spread = (@ * scale) \div BID_ASK_SPREAD_PRECISION]
    ELSE [spreads EXCEPT !.short_spread = (@ * scale) \div BID_ASK_SPREAD_PRECISION]

\* a is the record of calculate_spread's thirteen arguments
scaled_spreads(a) ==
    scale_by_leverage(
        scale_by_inventory(
            oracle_retreat(a.base_spread, a.last_oracle_reserve_price_spread_pct,
                           a.last_oracle_conf_pct),
            a.net_base_asset_amount,
            inventory_scale_capped(
                a.net_base_asset_amount,
                _calculate_market_open_bids_asks(a.base_asset_reserve,
                                                 a.min_base_asset_reserve,
                                                 a.max_base_asset_reserve))),
        a.net_base_asset_amount,
        a.total_fee_minus_distributions,
        effective_leverage_capped(a.quote_asset_reserve,
                                  a.terminal_quote_asset_reserve,
                                  a.peg_multiplier, a.net_base_asset_amount,
                                  a.reserve_price,
                                  a.total_fee_minus_distributions))

spread_cap(a) == Max(a.max_spread, Abs(a.last_oracle_reserve_price_spread_pct))

calculate_spread(a) ==
    LET spreads == scaled_spreads(a)
    IN cap_to_max_spread(spreads.long_spread, spreads.short_spread, spread_cap(a))

(***************************************************************************)
(* math/amm.rs: swap output and spread reserves, at the scaled widths of   *)
(* u128 and of bn::U192                                                    *)
(***************************************************************************)
TradeSizeTooLarge == "TradeSizeTooLarge"

BnConversionError == "BnConversionError"

\* the outcome of an unchecked operation that overflows or divides by zero
Panic == "Panic"

Failed(err) == [err |-> err, reserves |-> <<>>]

\* a faulty quotient_to_u128: a zero divisor yields a zero quotient
quotient_to_u128_of_zero(dividend, divisor) ==
    IF divisor = 0 THEN [err |-> Ok, value |-> 0]
    ELSE IF dividend \div divisor > U128_MAX
    THEN [err |-> BnConversionError, value |-> 0]
    ELSE [err |-> Ok, value |-> dividend \div divisor]

\* U192 checked_div then try_to_u128
quotient_to_u128(dividend, divisor) ==
    IF divisor = 0 THEN [err |-> MathError, value |-> 0]
    ELSE IF dividend \div divisor > U128_MAX
    THEN [err |-> BnConversionError, value |-> 0]
    ELSE [err |-> Ok, value |-> dividend \div divisor]

\* the reserves after the swap, once the size check has passed
swapped_reserves(invariant, new_input_asset_reserve) ==
    LET new_output_asset_reserve ==
            quotient_to_u128(invariant, new_input_asset_reserve)
    IN IF new_input_asset_reserve < 0 \/ new_input_asset_reserve > U128_MAX
       THEN Failed(MathError)
       ELSE IF new_output_asset_reserve.err # Ok
       THEN Failed(new_output_asset_reserve.err)
       ELSE [err |-> Ok,
             reserves |-> <<new_output_asset_reserve.value, new_input_asset_reserve>>]

\* a faulty calculate_swap_output: the trade size is not checked
calculate_swap_output_unchecked_size(swap_amount, input_asset_reserve, direction, invariant_sqrt) ==
    IF invariant_sqrt * invariant_sqrt > U192_MAX
    THEN Failed(MathError)
    ELSE swapped_reserves(invariant_sqrt * invariant_sqrt,
                          IF direction = "Add"
                          THEN input_asset_reserve + swap_amount
                          ELSE input_asset_reserve - swap_amount)

calculate_swap_output(swap_amount, input_asset_reserve, direction, invariant_sqrt) ==
    IF invariant_sqrt * invariant_sqrt > U192_MAX
    THEN Failed(MathError)
    ELSE IF direction = "Remove" /\ swap_amount > input_asset_reserve
    THEN Failed(TradeSizeTooLarge)
    ELSE swapped_reserves(invariant_sqrt * invariant_sqrt,
                          IF direction = "Add"
                          THEN input_asset_reserve + swap_amount
                          ELSE input_asset_reserve - swap_amount)

\* amm holds the fields of the AMM the function reads
calculate_spread_reserves(amm, direction) ==
    LET spread == IF direction = "Long" THEN amm.long_spread ELSE amm.short_spread
        divisor == IF spread \div 2 = 0 THEN 0
                   ELSE BID_ASK_SPREAD_PRECISION \div (spread \div 2)
        quote_asset_reserve_delta ==
            IF spread > 0 THEN amm.quote_asset_reserve \div divisor ELSE 0
        quote_asset_reserve ==
            IF direction = "Long"
            THEN amm.quote_asset_reserve + quote_asset_reserve_delta
            ELSE amm.quote_asset_reserve - quote_asset_reserve_delta
        base_asset_reserve ==
            quotient_to_u128(amm.sqrt_k * amm.sqrt_k, quote_asset_reserve)
    IN IF spread > 0 /\ spread \div 2 = 0 THEN Failed(Panic)
       ELSE IF spread > 0 /\ divisor = 0 THEN Failed(MathError)
       ELSE IF quote_asset_reserve < 0 \/ quote_asset_reserve > U128_MAX
       THEN Failed(MathError)
       ELSE IF amm.sqrt_k * amm.sqrt_k > U192_MAX THEN Failed(MathError)
       ELSE IF base_asset_reserve.err # Ok THEN Failed(base_asset_reserve.err)
       ELSE [err |-> Ok,
             reserves |-> <<base_asset_reserve.value, quote_asset_reserve>>]

(***************************************************************************)
(* math/amm.rs: _calculate_budgeted_k_scale.  The amounts explored are far *)
(* from the widths of i128, u128 and U192, and x + d is not negative.      *)
(***************************************************************************)
AMM_RESERVE_PRECISION == 1000

QUOTE_PRECISION == 1000

PEG_PRECISION == 100

K_BPS_UPDATE_SCALE == 1000

\* the solved numerator and denominator, and whether the cost of increasing
\* k exceeds what can be spent
k_scale_solution(x, y, budget, q, d) ==
    LET c == -budget
        c_sign == IF c > 0 THEN 1 ELSE -1
        d_sign == IF d > 0 THEN 1 ELSE -1
        x_d == x + d
        x_times_x_d_c ==
            (((x * x_d) \div AMM_RESERVE_PRECISION) * Abs(c)) \div QUOTE_PRECISION
        c_times_x_d_d ==
            (((Abs(c) * Abs(x_d)) \div QUOTE_PRECISION) * Abs(d))
                \div AMM_RESERVE_PRECISION
        pegged_quote_times_dd ==
            (((((y * Abs(d)) \div AMM_RESERVE_PRECISION) * Abs(d))
                 \div AMM_RESERVE_PRECISION) * q) \div PEG_PRECISION
    IN [cost_exceeds |-> c_sign < 0 /\ x_times_x_d_c > Abs(pegged_quote_times_dd),
        numerator |-> TruncDiv(pegged_quote_times_dd
                                 - c_times_x_d_d * (c_sign * d_sign),
                               AMM_TO_QUOTE_PRECISION_RATIO),
        denominator |-> TruncDiv(x_times_x_d_c * c_sign + pegged_quote_times_dd,
                                 AMM_TO_QUOTE_PRECISION_RATIO)]

\* the solution kept within the bounds on the change of k
bounded_k_scale(numerator, denominator, k_pct_upper_bound, k_pct_lower_bound) ==
    LET current_pct_change == TruncDiv(numerator * 10000, denominator)
    IN IF numerator > denominator
       THEN IF current_pct_change
                  > TruncDiv(k_pct_upper_bound * 10000, K_BPS_UPDATE_SCALE)
            THEN [err |-> Ok, value |-> <<k_pct_upper_bound, K_BPS_UPDATE_SCALE>>]
            ELSE [err |-> Ok, value |-> <<numerator, denominator>>]
       ELSE IF current_pct_change
                  < TruncDiv(k_pct_lower_bound * 10000, K_BPS_UPDATE_SCALE)
            THEN [err |-> Ok, value |-> <<k_pct_lower_bound, K_BPS_UPDATE_SCALE>>]
            ELSE [err |-> Ok, value |-> <<numerator, denominator>>]

\* s is the solution; the assert! on its signs panics
checked_k_scale(s, k_pct_upper_bound, k_pct_lower_bound) ==
    IF s.cost_exceeds
    THEN [err |-> Ok, value |-> <<k_pct_upper_bound, K_BPS_UPDATE_SCALE>>]
    ELSE IF s.numerator < 0 /\ s.denominator < 0
    THEN bounded_k_scale(-s.numerator, -s.denominator,
                         k_pct_upper_bound, k_pct_lower_bound)
    ELSE IF s.numerator > 0 /\ s.denominator > 0
    THEN bounded_k_scale(s.numerator, s.denominator,
                         k_pct_upper_bound, k_pct_lower_bound)
    ELSE [err |-> Panic, value |-> <<>>]

_calculate_budgeted_k_scale(x, y, budget, q, d, k_pct_upper_bound, k_pct_lower_bound) ==
    checked_k_scale(k_scale_solution(x, y, budget, q, d),
                    k_pct_upper_bound, k_pct_lower_bound)

(***************************************************************************)
(* math/amm.rs: get_update_k_result.  new_sqrt_k fits u128, and the        *)
(* amounts are far from the width of U192.                                 *)
(***************************************************************************)
InvalidUpdateK == "InvalidUpdateK"

\* a faulty decrease_exceeds_bound: no decrease is too large
decrease_exceeds_bound_never(sqrt_k_ratio, bound_update) == FALSE

\* "if decreasing k, max decrease ratio for single transaction is 2.5%"; the
\* source's 975_000_000 is 975 thousandths of AMM_RESERVE_PRECISION
decrease_exceeds_bound(sqrt_k_ratio, bound_update) ==
    bound_update /\ sqrt_k_ratio < (AMM_RESERVE_PRECISION \div 1000) * 975

\* a faulty imbalance_exceeds_sqrt_k: only a bounded update is checked
imbalance_exceeds_sqrt_k_bounded_only(amm, sqrt_k, bound_update) ==
    /\ bound_update
    /\ sqrt_k < amm.sqrt_k
    /\ Abs(amm.net_base_asset_amount) > sqrt_k \div 3

\* "new_sqrt_k too small relative to market imbalance"
imbalance_exceeds_sqrt_k(amm, sqrt_k, bound_update) ==
    \/ /\ bound_update
       /\ sqrt_k < amm.sqrt_k
       /\ Abs(amm.net_base_asset_amount) > sqrt_k \div 3
    \/ Abs(amm.net_base_asset_amount) > sqrt_k

\* the reserves scaled by the ratio, rounded up when k decreases
scaled_reserves(amm, sqrt_k, sqrt_k_ratio) ==
    LET base_asset_reserve ==
            (amm.base_asset_reserve
                * (IF sqrt_k_ratio < AMM_RESERVE_PRECISION
                   THEN sqrt_k_ratio + 1 ELSE sqrt_k_ratio))
                \div AMM_RESERVE_PRECISION
    IN IF base_asset_reserve = 0
       THEN [err |-> MathError, result |-> <<>>]
       ELSE [err |-> Ok,
             result |-> [sqrt_k |-> sqrt_k,
                         base_asset_reserve |-> base_asset_reserve,
                         quote_asset_reserve |->
                             (sqrt_k * sqrt_k) \div base_asset_reserve]]

get_update_k_result(amm, new_sqrt_k, bound_update) ==
    IF amm.sqrt_k = 0
    THEN [err |-> MathError, result |-> <<>>]
    ELSE IF decrease_exceeds_bound(
                (new_sqrt_k * AMM_RESERVE_PRECISION) \div amm.sqrt_k, bound_update)
    THEN [err |-> InvalidUpdateK, result |-> <<>>]
    ELSE IF imbalance_exceeds_sqrt_k(amm, new_sqrt_k, bound_update)
    THEN [err |-> InvalidUpdateK, result |-> <<>>]
    ELSE scaled_reserves(amm, new_sqrt_k,
                         (new_sqrt_k * AMM_RESERVE_PRECISION) \div amm.sqrt_k)

(***************************************************************************)
(* math/insurance.rs: shares of the insurance fund vault                   *)
(***************************************************************************)
\* math::helpers::get_proportion_u128: value * numerator / denominator,
\* rounded down
get_proportion_u128(value, numerator, denominator) ==
    (value * numerator) \div denominator

vault_amount_to_if_shares(amount, total_if_shares, insurance_fund_vault_balance) ==
    IF insurance_fund_vault_balance > 0
    THEN [err |-> Ok,
          value |-> get_proportion_u128(amount, total_if_shares,
                                        insurance_fund_vault_balance)]
    ELSE IF total_if_shares # 0
    THEN [err |-> DefaultError, value |-> 0]
    ELSE [err |-> Ok, value |-> amount]

if_shares_to_vault_amount(n_shares, total_if_shares, insurance_fund_vault_balance) ==
    IF n_shares > total_if_shares
    THEN [err |-> DefaultError, value |-> 0]
    ELSE IF total_if_shares > 0
    THEN [err |-> Ok,
          value |-> get_proportion_u128(insurance_fund_vault_balance, n_shares,
                                        total_if_shares)]
    ELSE [err |-> Ok, value |-> 0]

\* calculate_if_shares_lost that prices the requested value against all the
\* shares, the requested ones included
calculate_if_shares_lost_of_all_shares(insurance_fund_stake, spot_market, insurance_fund_vault_balance) ==
    LET n_shares == insurance_fund_stake.last_withdraw_request_shares
        value == insurance_fund_stake.last_withdraw_request_value
        total_shares == spot_market.insurance_fund.total_shares
        amount == if_shares_to_vault_amount(n_shares, total_shares,
                                            insurance_fund_vault_balance)
        new_n_shares ==
            vault_amount_to_if_shares(value, total_shares,
                                      insurance_fund_vault_balance - value)
    IN IF amount.err # Ok THEN amount
       ELSE IF amount.value > value
       THEN IF new_n_shares.err # Ok THEN new_n_shares
            ELSE IF new_n_shares.value > n_shares
            THEN [err |-> DefaultError, value |-> 0]
            ELSE [err |-> Ok, value |-> n_shares - new_n_shares.value]
       ELSE [err |-> Ok, value |-> 0]

\* the shares a withdraw request forfeits when the value of a share has risen
\* since the request
calculate_if_shares_lost(insurance_fund_stake, spot_market, insurance_fund_vault_balance) ==
    LET n_shares == insurance_fund_stake.last_withdraw_request_shares
        value == insurance_fund_stake.last_withdraw_request_value
        total_shares == spot_market.insurance_fund.total_shares
        amount == if_shares_to_vault_amount(n_shares, total_shares,
                                            insurance_fund_vault_balance)
        new_n_shares ==
            vault_amount_to_if_shares(value, total_shares - n_shares,
                                      insurance_fund_vault_balance - value)
    IN IF amount.err # Ok THEN amount
       ELSE IF amount.value > value
       THEN IF new_n_shares.err # Ok THEN new_n_shares
            ELSE IF new_n_shares.value > n_shares
            THEN [err |-> DefaultError, value |-> 0]
            ELSE [err |-> Ok, value |-> n_shares - new_n_shares.value]
       ELSE [err |-> Ok, value |-> 0]

(***************************************************************************)
(* instructions/if_staker.rs: the two-phase withdrawal of an insurance     *)
(* fund stake.  accounts holds the accounts of the instruction context:    *)
(* insurance_fund_stake, spot_market, insurance_fund_vault,                *)
(* user_token_account, state.  The controller functions are modelled       *)
(* without the rebase of the shares (the share totals explored stay below  *)
(* a hundred times the vault balance) and without user_stats.              *)
(***************************************************************************)
InsufficientIFShares == "InsufficientIFShares"

TryingToRemoveLiquidityTooFast == "TryingToRemoveLiquidityTooFast"

ExchangePaused == "ExchangePaused"

IfResult(err, accounts_at_return, value) ==
    [err |-> err, accounts |-> accounts_at_return, value |-> value]

\* controller::insurance::request_remove_insurance_fund_stake
request_remove_insurance_fund_stake(n_shares, insurance_vault_amount, accts, now) ==
    LET stake == accts.insurance_fund_stake
        amount == if_shares_to_vault_amount(
                      n_shares, accts.spot_market.insurance_fund.total_shares,
                      insurance_vault_amount)
        value == Min(amount.value, Max(insurance_vault_amount - 1, 0))
    IN IF n_shares > stake.if_shares \/ stake.if_shares = 0
       THEN IfResult(DefaultError, accts, 0)
       ELSE IF amount.err # Ok THEN IfResult(amount.err, accts, 0)
       ELSE IfResult(Ok,
                [accts EXCEPT !.insurance_fund_stake =
                    [stake EXCEPT !.last_withdraw_request_shares = n_shares,
                                  !.last_withdraw_request_value = value,
                                  !.last_withdraw_request_ts = now]],
                0)

\* controller::insurance::cancel_request_remove_insurance_fund_stake
cancel_request_remove_insurance_fund_stake(insurance_vault_amount, accts, now) ==
    LET stake == accts.insurance_fund_stake
        insurance_fund == accts.spot_market.insurance_fund
        if_shares_lost == calculate_if_shares_lost(stake, accts.spot_market,
                                                   insurance_vault_amount)
    IN IF stake.last_withdraw_request_shares = 0
       THEN IfResult(DefaultError, accts, 0)
       ELSE IF if_shares_lost.err # Ok THEN IfResult(if_shares_lost.err, accts, 0)
       ELSE IF if_shares_lost.value > stake.if_shares
       THEN IfResult(MathError, accts, 0)
       ELSE IfResult(Ok,
                [accts EXCEPT
                    !.insurance_fund_stake =
                        [stake EXCEPT
                            !.if_shares = @ - if_shares_lost.value,
                            !.last_withdraw_request_shares = 0,
                            !.last_withdraw_request_value = 0,
                            !.last_withdraw_request_ts = now],
                    !.spot_market.insurance_fund =
                        [insurance_fund EXCEPT
                            !.total_shares = @ - if_shares_lost.value,
                            !.user_shares = @ - if_shares_lost.value]],
                0)

\* controller::insurance::remove_insurance_fund_stake; the value is the
\* amount to send to the staker
remove_insurance_fund_stake(insurance_vault_amount, accts, now) ==
    LET stake == accts.insurance_fund_stake
        insurance_fund == accts.spot_market.insurance_fund
        n_shares == stake.last_withdraw_request_shares
        amount == if_shares_to_vault_amount(n_shares, insurance_fund.total_shares,
                                            insurance_vault_amount)
        withdraw_amount == Min(amount.value, stake.last_withdraw_request_value)
    IN IF now - stake.last_withdraw_request_ts < insurance_fund.unstaking_period
       THEN IfResult(TryingToRemoveLiquidityTooFast, accts, 0)
       ELSE IF n_shares = 0 THEN IfResult(DefaultError, accts, 0)
       ELSE IF stake.if_shares < n_shares
       THEN IfResult(InsufficientIFShares, accts, 0)
       ELSE IF amount.err # Ok THEN IfResult(amount.err, accts, 0)
       ELSE IfResult(Ok,
                [accts EXCEPT
                    !.insurance_fund_stake =
                        [stake EXCEPT
                            !.if_shares = @ - n_shares,
                            !.last_withdraw_request_shares = 0,
                            !.last_withdraw_request_value = 0,
                            !.last_withdraw_request_ts = now],
                    !.spot_market.insurance_fund =
                        [insurance_fund EXCEPT
                            !.total_shares = @ - n_shares,
                            !.user_shares = @ - n_shares]],
                withdraw_amount)

\* handle_request_remove_insurance_fund_stake without the check that no
\* request is in progress
handle_request_remove_insurance_fund_stake_unguarded(accts, market_index, amount, now) ==
    LET stake == accts.insurance_fund_stake
        n_shares == vault_amount_to_if_shares(
                        amount, accts.spot_market.insurance_fund.total_shares,
                        accts.insurance_fund_vault.amount)
    IN IF stake.market_index # market_index
       THEN IfResult(DefaultError, accts, 0)
       ELSE IF n_shares.err # Ok THEN IfResult(n_shares.err, accts, 0)
       ELSE IF n_shares.value = 0 THEN IfResult(DefaultError, accts, 0)
       ELSE IF stake.if_shares < n_shares.value
       THEN IfResult(InsufficientIFShares, accts, 0)
       ELSE request_remove_insurance_fund_stake(
                n_shares.value, accts.insurance_fund_vault.amount, accts, now)

handle_request_remove_insurance_fund_stake(accts, market_index, amount, now) ==
    LET stake == accts.insurance_fund_stake
        n_shares == vault_amount_to_if_shares(
                        amount, accts.spot_market.insurance_fund.total_shares,
                        accts.insurance_fund_vault.amount)
    IN IF stake.market_index # market_index
       THEN IfResult(DefaultError, accts, 0)
       ELSE IF stake.last_withdraw_request_shares # 0
       THEN IfResult(DefaultError, accts, 0)
       ELSE IF n_shares.err # Ok THEN IfResult(n_shares.err, accts, 0)
       ELSE IF n_shares.value = 0 THEN IfResult(DefaultError, accts, 0)
       ELSE IF stake.if_shares < n_shares.value
       THEN IfResult(InsufficientIFShares, accts, 0)
       ELSE request_remove_insurance_fund_stake(
                n_shares.value, accts.insurance_fund_vault.amount, accts, now)

handle_cancel_request_remove_insurance_fund_stake(accts, market_index, now) ==
    IF accts.insurance_fund_stake.market_index # market_index
    THEN IfResult(DefaultError, accts, 0)
    ELSE IF accts.insurance_fund_stake.last_withdraw_request_shares = 0
    THEN IfResult(DefaultError, accts, 0)
    ELSE cancel_request_remove_insurance_fund_stake(
             accts.insurance_fund_vault.amount, accts, now)

\* controller::token::send_from_program_vault: the token program moves amount
\* from the vault to the staker's token account
send_from_program_vault(accts, amount) ==
    [accts EXCEPT !.insurance_fund_vault.amount = @ - amount,
                  !.user_token_account.amount = @ + amount]

\* handle_remove_insurance_fund_stake that goes on with an amount of 0 when
\* the controller refuses the removal
handle_remove_insurance_fund_stake_unrequested(accts, market_index, now) ==
    LET removed == remove_insurance_fund_stake(accts.insurance_fund_vault.amount,
                                               accts, now)
        amount == IF removed.err = Ok THEN removed.value ELSE 0
        at_return == IF removed.err = Ok THEN removed.accounts ELSE accts
    IN IF accts.state.withdraw_paused THEN IfResult(ExchangePaused, accts, 0)
       ELSE IF accts.insurance_fund_stake.market_index # market_index
       THEN IfResult(DefaultError, accts, 0)
       ELSE IF ~(accts.insurance_fund_vault.amount > 0)
       THEN IfResult(DefaultError, send_from_program_vault(at_return, amount), 0)
       ELSE IfResult(Ok, send_from_program_vault(at_return, amount), amount)

\* the value is the amount sent to the staker; the check after the transfer
\* reads ctx.accounts.insurance_fund_vault.amount, which the instruction loaded
\* before the transfer and does not reload
handle_remove_insurance_fund_stake(accts, market_index, now) ==
    LET removed == remove_insurance_fund_stake(accts.insurance_fund_vault.amount,
                                               accts, now)
        amount == removed.value
    IN IF accts.state.withdraw_paused THEN IfResult(ExchangePaused, accts, 0)
       ELSE IF accts.insurance_fund_stake.market_index # market_index
       THEN IfResult(DefaultError, accts, 0)
       ELSE IF removed.err # Ok THEN removed
       ELSE IF ~(accts.insurance_fund_vault.amount > 0)
       THEN IfResult(DefaultError,
                     send_from_program_vault(removed.accounts, amount), 0)
       ELSE IfResult(Ok, send_from_program_vault(removed.accounts, amount),
                     amount)

InsufficientDeposit == "InsufficientDeposit"

\* controller::insurance::add_insurance_fund_stake
add_insurance_fund_stake(amount, insurance_vault_amount, accts) ==
    LET insurance_fund == accts.spot_market.insurance_fund
        n_shares == vault_amount_to_if_shares(amount, insurance_fund.total_shares,
                                              insurance_vault_amount)
    IN IF n_shares.err # Ok THEN IfResult(n_shares.err, accts, 0)
       ELSE IfResult(Ok,
                [accts EXCEPT
                    !.insurance_fund_stake.if_shares = @ + n_shares.value,
                    !.spot_market.insurance_fund =
                        [insurance_fund EXCEPT
                            !.total_shares = @ + n_shares.value,
                            !.user_shares = @ + n_shares.value]],
                n_shares.value)

\* controller::token::receive: the token program moves amount from the
\* staker's token account to the vault, and refuses when the staker has less
receive(r, amount) ==
    IF r.err # Ok THEN r
    ELSE IF r.accounts.user_token_account.amount < amount
    THEN IfResult(DefaultError, r.accounts, 0)
    ELSE IfResult(Ok,
             [r.accounts EXCEPT !.insurance_fund_vault.amount = @ + amount,
                                !.user_token_account.amount = @ - amount],
             r.value)

\* handle_add_insurance_fund_stake without the check that no withdraw request
\* is in progress
handle_add_insurance_fund_stake_unguarded(accts, market_index, amount, settled) ==
    LET stake == accts.insurance_fund_stake
        after_settle == [accts EXCEPT !.insurance_fund_vault.amount = @ + settled]
    IN IF amount = 0 THEN IfResult(InsufficientDeposit, accts, 0)
       ELSE IF stake.market_index # market_index
       THEN IfResult(DefaultError, accts, 0)
       ELSE receive(add_insurance_fund_stake(
                        amount, accts.insurance_fund_vault.amount, after_settle),
                    amount)

\* settled is the revenue attempt_settle_revenue_to_insurance_fund moves into
\* the vault before the stake is added, 0 when no settlement is due; the
\* shares are priced at ctx.accounts.insurance_fund_vault.amount as the
\* instruction loaded it; the value is the number of shares added
handle_add_insurance_fund_stake(accts, market_index, amount, settled) ==
    LET stake == accts.insurance_fund_stake
        after_settle == [accts EXCEPT !.insurance_fund_vault.amount = @ + settled]
    IN IF amount = 0 THEN IfResult(InsufficientDeposit, accts, 0)
       ELSE IF stake.market_index # market_index
       THEN IfResult(DefaultError, accts, 0)
       ELSE IF ~(/\ stake.last_withdraw_request_shares = 0
                 /\ stake.last_withdraw_request_value = 0)
       THEN IfResult(DefaultError, accts, 0)
       ELSE receive(add_insurance_fund_stake(
                        amount, accts.insurance_fund_vault.amount, after_settle),
                    amount)

(***************************************************************************)
(* math/spot_withdraw.rs: the withdraw limits of a spot market.  The       *)
(* amounts explored are far from the width of u128: safe_sub fails only    *)
(* below zero, safe_add never.                                             *)
(***************************************************************************)
\* calculate_min_deposit_token that subtracts the threshold without capping it
\* at the deposit TWAP
calculate_min_deposit_token_uncapped(deposit_token_twap, withdraw_guard_threshold) ==
    LET min_deposit_token ==
            deposit_token_twap
               - Max(deposit_token_twap \div 4, withdraw_guard_threshold)
    IN IF min_deposit_token < 0 THEN [err |-> MathError, value |-> 0]
       ELSE [err |-> Ok, value |-> min_deposit_token]

\* calculate_min_deposit_token that lets the deposits fall by a fifth of the
\* TWAP
calculate_min_deposit_token_fifth(deposit_token_twap, withdraw_guard_threshold) ==
    LET min_deposit_token ==
            deposit_token_twap
               - Max((deposit_token_twap * 2) \div 10,
                     Min(withdraw_guard_threshold, deposit_token_twap))
    IN IF min_deposit_token < 0 THEN [err |-> MathError, value |-> 0]
       ELSE [err |-> Ok, value |-> min_deposit_token]

calculate_min_deposit_token(deposit_token_twap, withdraw_guard_threshold) ==
    LET min_deposit_token ==
            deposit_token_twap
               - Max(deposit_token_twap \div 4,
                     Min(withdraw_guard_threshold, deposit_token_twap))
    IN IF min_deposit_token < 0 THEN [err |-> MathError, value |-> 0]
       ELSE [err |-> Ok, value |-> min_deposit_token]

calculate_max_borrow_token_amount(deposit_token_amount, borrow_token_twap, withdraw_guard_threshold) ==
    LET capped == deposit_token_amount - deposit_token_amount \div 5
    IN IF capped < 0 THEN [err |-> MathError, value |-> 0]
       ELSE [err |-> Ok,
             value |-> Max(withdraw_guard_threshold,
                           Min(Max(deposit_token_amount \div 6,
                                   borrow_token_twap
                                      + deposit_token_amount \div 10),
                               capped))]

\* the cumulative interest of a balance that has accrued none, in the units of
\* the model
SPOT_CUMULATIVE_INTEREST_PRECISION == 2

\* math::spot_balance::get_token_amount: the tokens of a scaled balance at the
\* cumulative interest of its type, rounded down for a deposit and up for a
\* borrow
get_token_amount(balance, spot_market, balance_type) ==
    IF balance_type = "Deposit"
    THEN (balance * spot_market.cumulative_deposit_interest)
            \div SPOT_CUMULATIVE_INTEREST_PRECISION
    ELSE (balance * spot_market.cumulative_borrow_interest
             + SPOT_CUMULATIVE_INTEREST_PRECISION - 1)
            \div SPOT_CUMULATIVE_INTEREST_PRECISION

\* check_user_exception_to_withdraw_limits that does not look at the user's
\* lifetime net deposits
check_user_exception_to_withdraw_limits_any_net(spot_market, user, token_amount_withdrawn) ==
    /\ user # <<>>
    /\ user[1].spot_position.cumulative_deposits >= 0
    /\ user[1].spot_position.balance_type = "Deposit"
    /\ token_amount_withdrawn # <<>>
    /\ get_token_amount(user[1].spot_position.scaled_balance, spot_market,
                        "Deposit") + token_amount_withdrawn[1]
          < spot_market.withdraw_guard_threshold \div 10

\* user and token_amount_withdrawn are options: <<>> is None, <<x>> is Some(x)
check_user_exception_to_withdraw_limits(spot_market, user, token_amount_withdrawn) ==
    /\ user # <<>>
    /\ user[1].total_deposits - user[1].total_withdraws >= 0
    /\ user[1].spot_position.cumulative_deposits >= 0
    /\ user[1].spot_position.balance_type = "Deposit"
    /\ token_amount_withdrawn # <<>>
    /\ get_token_amount(user[1].spot_position.scaled_balance, spot_market,
                        "Deposit") + token_amount_withdrawn[1]
          < spot_market.withdraw_guard_threshold \div 10

\* the limits of the market hold for the withdrawal: the deposit floor, and
\* the borrow ceiling too when the user's position is a borrow or no user is
\* given
valid_global_withdrawal(spot_market, user) ==
    LET deposit_token_amount ==
            get_token_amount(spot_market.deposit_balance, spot_market, "Deposit")
        borrow_token_amount ==
            get_token_amount(spot_market.borrow_balance, spot_market, "Borrow")
        max_borrow_token ==
            calculate_max_borrow_token_amount(
                deposit_token_amount, spot_market.borrow_token_twap,
                spot_market.withdraw_guard_threshold).value
        min_deposit_token ==
            calculate_min_deposit_token(
                spot_market.deposit_token_twap,
                spot_market.withdraw_guard_threshold).value
    IN IF user # <<>> /\ user[1].spot_position.balance_type # "Borrow"
       THEN deposit_token_amount >= min_deposit_token
       ELSE /\ borrow_token_amount <= max_borrow_token
            /\ deposit_token_amount >= min_deposit_token

check_withdraw_limits(spot_market, user, token_amount_withdrawn) ==
    [err |-> Ok,
     value |-> IF ~valid_global_withdrawal(spot_market, user)
               THEN check_user_exception_to_withdraw_limits(
                        spot_market, user, token_amount_withdrawn)
               ELSE TRUE]

(***************************************************************************)
(* controller/insurance.rs: settle_revenue_to_insurance_fund, as           *)
(* controller/spot_balance/tests.rs calls it.  The revenue pool is a       *)
(* scaled deposit balance held inside spot_market.deposit_balance.  The    *)
(* interest that accrues at the settlement and the shares of the           *)
(* insurance fund are left out.                                            *)
(***************************************************************************)

\* math::spot_balance::get_spot_balance: the scaled balance of a token amount
\* at the cumulative interest of its type
get_spot_balance(token_amount, spot_market, balance_type, round_up) ==
    LET interest == IF balance_type = "Deposit"
                    THEN spot_market.cumulative_deposit_interest
                    ELSE spot_market.cumulative_borrow_interest
        scaled == token_amount * SPOT_CUMULATIVE_INTEREST_PRECISION
    IN IF round_up THEN (scaled + interest - 1) \div interest
                   ELSE scaled \div interest

\* what the depositors of the market own beyond what is borrowed
depositors_claim(spot_market) ==
    get_token_amount(spot_market.deposit_balance, spot_market, "Deposit")
        - get_token_amount(spot_market.borrow_balance, spot_market, "Borrow")

\* the revenue pool of the market in tokens
revenue_pool_token_amount(spot_market) ==
    get_token_amount(spot_market.revenue_pool.scaled_balance, spot_market, "Deposit")

\* the result of a settlement: the amount settled and the market at return
SettleResult(err, amount, spot_market) ==
    [err |-> err, value |-> amount, spot_market |-> spot_market]

\* settle_revenue_to_insurance_fund that settles the whole revenue pool
\* whatever the depositors' claim
settle_revenue_to_insurance_fund_uncapped(spot_market_vault_amount, insurance_vault_amount, spot_market, now) ==
    LET token_amount == revenue_pool_token_amount(spot_market)
        balance == Min(get_spot_balance(token_amount, spot_market, "Deposit", TRUE),
                       spot_market.revenue_pool.scaled_balance)
    IN IF now - spot_market.insurance_fund.last_revenue_settle_ts
             < spot_market.insurance_fund.revenue_settle_period
       THEN SettleResult(DefaultError, 0, spot_market)
       ELSE IF token_amount = 0
       THEN SettleResult(Ok, 0, spot_market)
       ELSE SettleResult(Ok, token_amount,
               [spot_market EXCEPT
                   !.revenue_pool.scaled_balance = @ - balance,
                   !.deposit_balance = @ - balance,
                   !.insurance_fund.last_revenue_settle_ts = now])

\* settle_revenue_to_insurance_fund: once revenue_settle_period has passed
\* since the last settlement, the revenue pool leaves the deposits of the
\* market for the insurance fund vault: all of it when the depositors' claim
\* covers it, and half of the depositors' claim otherwise
settle_revenue_to_insurance_fund(spot_market_vault_amount, insurance_vault_amount, spot_market, now) ==
    LET pool == revenue_pool_token_amount(spot_market)
        claim == depositors_claim(spot_market)
        token_amount == IF claim < pool THEN Max(claim, 0) \div 2 ELSE pool
        balance == Min(get_spot_balance(token_amount, spot_market, "Deposit", TRUE),
                       spot_market.revenue_pool.scaled_balance)
    IN IF now - spot_market.insurance_fund.last_revenue_settle_ts
             < spot_market.insurance_fund.revenue_settle_period
       THEN SettleResult(DefaultError, 0, spot_market)
       ELSE IF token_amount = 0
       THEN SettleResult(Ok, 0, spot_market)
       ELSE SettleResult(Ok, token_amount,
               [spot_market EXCEPT
                   !.revenue_pool.scaled_balance = @ - balance,
                   !.deposit_balance = @ - balance,
                   !.insurance_fund.last_revenue_settle_ts = now])

(***************************************************************************)
(* lib.rs: the instruction handlers that trade or liquidate a position.    *)
(* Each result carries the controller calls made, in order.  Collateral,   *)
(* fees, price limits and the trade history are left out: the margin       *)
(* ratio is an input of the handlers.  The swap against the amm is         *)
(* taken at one quote unit per base unit, so that a trade of               *)
(* quote_asset_amount moves as much base.                                  *)
(***************************************************************************)
UserHasNoPositionInMarket == "UserHasNoPositionInMarket"

SufficientCollateral == "SufficientCollateral"

InsufficientCollateral == "InsufficientCollateral"

partial_liquidation_close_percentage_numerator == 25

partial_liquidation_close_percentage_denominator == 100

calculate_base_asset_value(market_position) ==
    Abs(market_position.base_asset_amount)

\* controller::position::increase and ::reduce: trade quote_asset_amount
increase(direction, quote_asset_amount, market, market_position) ==
    update_position_and_market(
        market_position, market,
        IF direction = "Long"
        THEN PositionDelta(quote_asset_amount, -quote_asset_amount)
        ELSE PositionDelta(-quote_asset_amount, quote_asset_amount))

reduce(direction, quote_asset_amount, market, market_position) ==
    increase(direction, quote_asset_amount, market, market_position)

\* controller::position::close: trade the whole base amount away
close(market, market_position) ==
    update_position_and_market(
        market_position, market,
        PositionDelta(-market_position.base_asset_amount,
                      market_position.base_asset_amount))

direction_to_close_position(base_asset_amount) ==
    IF base_asset_amount > 0 THEN "Short" ELSE "Long"

IxResult(err, calls, position, market) ==
    [err |-> err, calls |-> calls, position |-> position, market |-> market]

\* the handler's result after its last controller call r
Traded(calls, r) == IxResult(r.err, calls, r.position, r.market)

\* open_position without its margin check
open_position_traded_unchecked(margin_ok, potentially_risk_increasing, calls, r) ==
    Traded(calls, r)

\* the margin check that ends open_position
open_position_traded(margin_ok, potentially_risk_increasing, calls, r) ==
    IF r.err = Ok /\ ~margin_ok /\ potentially_risk_increasing
    THEN IxResult(InsufficientCollateral, calls, r.position, r.market)
    ELSE Traded(calls, r)

\* close and reverse: c is the result of controller::position::close
open_position_closed(direction, resid, margin_ok, potentially_risk_increasing, c) ==
    IF c.err # Ok
    THEN Traded(<<"settle_funding_payment", "close">>, c)
    ELSE open_position_traded(
             margin_ok, potentially_risk_increasing,
             <<"settle_funding_payment", "close", "increase">>,
             increase(direction, resid, c.market, c.position))

\* s is the result of settle_funding_payment
open_position_settled(direction, quote_asset_amount, margin_ok, s) ==
    IF s.err # Ok THEN Traded(<<"settle_funding_payment">>, s)
    ELSE IF \/ s.position.base_asset_amount = 0
            \/ s.position.base_asset_amount > 0 /\ direction = "Long"
            \/ s.position.base_asset_amount < 0 /\ direction = "Short"
    THEN open_position_traded(
             margin_ok, TRUE, <<"settle_funding_payment", "increase">>,
             increase(direction, quote_asset_amount, s.market, s.position))
    ELSE IF calculate_base_asset_value(s.position) > quote_asset_amount
    THEN open_position_traded(
             margin_ok, FALSE, <<"settle_funding_payment", "reduce">>,
             reduce(direction, quote_asset_amount, s.market, s.position))
    ELSE open_position_closed(
             direction,
             quote_asset_amount - calculate_base_asset_value(s.position),
             margin_ok,
             quote_asset_amount - calculate_base_asset_value(s.position)
                 >= calculate_base_asset_value(s.position),
             close(s.market, s.position))

open_position(position, market, direction, quote_asset_amount, margin_ok) ==
    open_position_settled(direction, quote_asset_amount, margin_ok,
                          settle_funding_payment(position, market))

\* s is the result of settle_funding_payment
close_position_settled(s) ==
    IF s.err # Ok THEN Traded(<<"settle_funding_payment">>, s)
    ELSE IF ~is_for(s.position)
    THEN IxResult(UserHasNoPositionInMarket, <<"settle_funding_payment">>,
                  s.position, s.market)
    ELSE Traded(<<"settle_funding_payment", "close">>,
                close(s.market, s.position))

close_position(position, market) ==
    close_position_settled(settle_funding_payment(position, market))

\* margin is where the user's margin ratio stands: above margin_ratio_partial
\* ("sufficient"), at or below margin_ratio_maintenance ("maintenance"), or
\* in between ("partial")
liquidate(position, market, margin) ==
    IF margin = "sufficient"
    THEN IxResult(SufficientCollateral, <<>>, position, market)
    ELSE IF position.base_asset_amount = 0
    THEN IxResult(Ok, <<>>, position, market)
    ELSE IF margin = "maintenance"
    THEN Traded(<<"close">>, close(market, position))
    ELSE Traded(<<"reduce">>,
                reduce(direction_to_close_position(position.base_asset_amount),
                       (calculate_base_asset_value(position)
                          * partial_liquidation_close_percentage_numerator)
                         \div partial_liquidation_close_percentage_denominator,
                       market, position))

(***************************************************************************)
(* history.rs: the ring buffers of trade and funding payment records.  A   *)
(* buffer holds HistorySize records where the program holds 1000; a record *)
(* keeps its record_id and what tells two records apart.                   *)
(***************************************************************************)
DefaultTradeRecord ==
    [record_id |-> 0, direction |-> "Long", quote_asset_amount |-> 0]

DefaultTradeHistory ==
    [head |-> 0,
     trade_records |-> [i \in 0..(HistorySize - 1) |-> DefaultTradeRecord]]

TradeHistory_append(self, pos) ==
    [head |-> (self.head + 1) % HistorySize,
     trade_records |-> [self.trade_records EXCEPT ![self.head] = pos]]

\* next_record_id that reads the record at head, the oldest of the buffer
TradeHistory_next_record_id_at_head(self) ==
    self.trade_records[self.head].record_id + 1

TradeHistory_next_record_id(self) ==
    LET prev_trade_id == IF self.head = 0 THEN HistorySize - 1 ELSE self.head - 1
    IN self.trade_records[prev_trade_id].record_id + 1

DefaultFundingPaymentRecord == [record_id |-> 0, funding_payment |-> 0]

DefaultFundingPaymentHistory ==
    [head |-> 0,
     funding_rate_records |->
         [i \in 0..(HistorySize - 1) |-> DefaultFundingPaymentRecord]]

FundingPaymentHistory_append(self, pos) ==
    [head |-> (self.head + 1) % HistorySize,
     funding_rate_records |-> [self.funding_rate_records EXCEPT ![self.head] = pos]]

FundingPaymentHistory_next_record_id(self) ==
    LET prev_record_id == IF self.head = 0 THEN HistorySize - 1 ELSE self.head - 1
    IN self.funding_rate_records[prev_record_id].record_id + 1

(***************************************************************************)
(* lib.rs: the fee, the margin check and the trade record of               *)
(* open_position, and withdraw_fees.  accounts holds state, user,          *)
(* collateral_vault, recipient, trade_history and                          *)
(* funding_payment_history.  The margin ratio after the trade is an input  *)
(* of the handler; the fee totals of the market, the oracle-mark spread    *)
(* limit and the limit price are left out.                                 *)
(***************************************************************************)
AdminWithdrawTooLarge == "AdminWithdrawTooLarge"

\* the result of a handler: its error, the accounts, the position and the
\* market at return
LedgerResult(err, accts, position, market) ==
    [err |-> err, accounts |-> accts, position |-> position, market |-> market]

\* math::fees::calculate
fees_calculate(quote_asset_amount, fee_numerator, fee_denominator) ==
    (quote_asset_amount * fee_numerator) \div fee_denominator

\* the accounts of open_position once the fee is paid and the trade recorded
open_position_accounts(accts, direction, quote_asset_amount, fee) ==
    [accts EXCEPT
        !.state.fees_collected = @ + fee,
        !.user.collateral = @ - fee,
        !.user.total_fee_paid = @ + fee,
        !.trade_history =
            TradeHistory_append(@,
                [record_id |-> TradeHistory_next_record_id(@),
                 direction |-> direction,
                 quote_asset_amount |-> quote_asset_amount])]

\* open_position: traded is the trade without the margin check, checked the
\* trade with it; the fee is paid between the trade and the margin check
open_position_recorded(accts, direction, quote_asset_amount, fee, traded, checked) ==
    IF traded.err # Ok
    THEN LedgerResult(traded.err, accts, traded.position, traded.market)
    ELSE IF accts.user.collateral < fee
    THEN LedgerResult(MathError, accts, traded.position, traded.market)
    ELSE IF checked.err # Ok
    THEN LedgerResult(checked.err, accts, traded.position, traded.market)
    ELSE LedgerResult(Ok,
             open_position_accounts(accts, direction, quote_asset_amount, fee),
             traded.position, traded.market)

open_position_with_fee(accts, position, market, direction, quote_asset_amount, margin_ratio_after) ==
    open_position_recorded(
        accts, direction, quote_asset_amount,
        fees_calculate(quote_asset_amount, accts.state.fee_numerator,
                       accts.state.fee_denominator),
        open_position(position, market, direction, quote_asset_amount, TRUE),
        open_position(position, market, direction, quote_asset_amount,
                      margin_ratio_after >= accts.state.margin_ratio_initial))

\* controller::token::send from the collateral vault to the recipient
send(accts, amount) ==
    IF accts.collateral_vault.amount < amount
    THEN [err |-> DefaultError, accounts |-> accts]
    ELSE [err |-> Ok,
          accounts |-> [accts EXCEPT !.collateral_vault.amount = @ - amount,
                                     !.recipient.amount = @ + amount]]

\* withdraw_fees that takes the fees collected for the share that may be
\* withdrawn
\* what withdraw_fees does once max_withdraw is known; sent is the result of
\* controller::token::send
withdraw_fees_checked(accts, amount, max_withdraw, sent) ==
    IF max_withdraw < 0 THEN [err |-> MathError, accounts |-> accts]
    ELSE IF amount > max_withdraw
    THEN [err |-> AdminWithdrawTooLarge, accounts |-> accts]
    ELSE IF sent.err # Ok THEN [err |-> sent.err, accounts |-> accts]
    ELSE [err |-> Ok,
          accounts |-> [sent.accounts EXCEPT !.state.fees_withdrawn = @ + amount]]

\* withdraw_fees that takes the fees collected for the share that may be
\* withdrawn
withdraw_fees_of_all_fees(accts, amount) ==
    withdraw_fees_checked(
        accts, amount,
        accts.state.fees_collected - accts.state.fees_withdrawn,
        send(accts, amount))

withdraw_fees(accts, amount) ==
    withdraw_fees_checked(
        accts, amount,
        accts.state.fees_collected \div SHARE_OF_FEES_ALLOCATED_TO_REPEG_DENOMINATOR
            - accts.state.fees_withdrawn,
        send(accts, amount))

(***************************************************************************)
(* The state machine                                                       *)
(***************************************************************************)
NoCall == [op |-> "none", user |-> "none", err |-> Ok, value |-> 0,
           update_type |-> "None", calls |-> <<>>]

\* the first funding boundary of the markets explored
T0 == ONE_HOUR

\* a market at initialization: matched reserves, TWAPs at the reserve price,
\* K rebalancing switched off (curve_update_intensity = 0)
InitMarket(config) ==
    [number_of_users |-> 0,
     number_of_users_with_base |-> 0,
     next_funding_rate_record_id |-> 1,
     amm |-> [quote_asset_amount |-> 0,
              base_asset_amount_long |-> 0,
              base_asset_amount_short |-> 0,
              quote_entry_amount_long |-> 0,
              quote_entry_amount_short |-> 0,
              quote_break_even_amount_long |-> 0,
              quote_break_even_amount_short |-> 0,
              cumulative_funding_rate_long |-> 0,
              cumulative_funding_rate_short |-> 0,
              order_step_size |-> config.order_step_size,
              base_asset_reserve |-> 10,
              quote_asset_reserve |-> 10,
              peg_multiplier |-> 100,
              base_spread |-> 0,
              long_spread |-> config.long_spread,
              short_spread |-> config.short_spread,
              curve_update_intensity |-> 0,
              funding_period |-> ONE_HOUR,
              last_funding_rate_ts |-> T0,
              last_funding_rate |-> 0,
              last_funding_rate_long |-> 0,
              last_funding_rate_short |-> 0,
              last_24h_avg_funding_rate |-> 0,
              net_revenue_since_last_funding |-> 0,
              historical_oracle_data |->
                  [last_oracle_price |-> 100,
                   last_oracle_delay |-> 0,
                   last_oracle_price_twap |-> 100,
                   last_oracle_price_twap_5min |-> 100,
                   last_oracle_price_twap_ts |-> T0],
              last_oracle_normalised_price |-> 100,
              last_oracle_conf_pct |-> 0,
              last_oracle_reserve_price_spread_pct |-> 0,
              last_mark_price_twap |-> 100,
              last_mark_price_twap_5min |-> 100,
              last_bid_price_twap |-> 100,
              last_ask_price_twap |-> 100,
              last_mark_price_twap_ts |-> T0,
              mark_std |-> 0]]

\* the insurance fund accounts: a stake holding shares[1] of the shares[2]
\* shares of a vault of shares[3] tokens, no withdraw request in progress, and
\* a staker with 2 tokens left to stake
InitAccounts(shares, withdraw_paused) ==
    [insurance_fund_stake |-> [market_index |-> 0,
                               if_shares |-> shares[1],
                               last_withdraw_request_shares |-> 0,
                               last_withdraw_request_value |-> 0,
                               last_withdraw_request_ts |-> T0],
     spot_market |-> [insurance_fund |-> [total_shares |-> shares[2],
                                          user_shares |-> shares[1],
                                          unstaking_period |-> ONE_HOUR]],
     insurance_fund_vault |-> [amount |-> shares[3]],
     user_token_account |-> [amount |-> 2],
     state |-> [withdraw_paused |-> withdraw_paused],
     clock |-> [unix_timestamp |-> T0]]

\* mem after a call that returned Ok: the in-memory copy is the committed state
Committed == [positions |-> "committed", market |-> "committed"]

\* the host: the accounts are written back only when the call returned Ok;
\* calls lists the controller functions an instruction handler has called
CommitCalls(op, user, err, value, update_type, calls, positions_at_return, market_at_return) ==
    /\ steps < MaxSteps
    /\ steps' = steps + 1
    /\ ret' = [op |-> op, user |-> user, err |-> err, value |-> value,
               update_type |-> update_type, calls |-> calls]
    /\ mem' = IF err = Ok THEN Committed
              ELSE [positions |-> positions_at_return, market |-> market_at_return]
    /\ IF err = Ok
       THEN /\ perp_positions' = positions_at_return
            /\ perp_market' = market_at_return
       ELSE UNCHANGED <<perp_positions, perp_market>>
    /\ UNCHANGED accounts

Commit(op, user, err, value, update_type, positions_at_return, market_at_return) ==
    CommitCalls(op, user, err, value, update_type, <<>>,
                positions_at_return, market_at_return)

\* the deltas a caller hands in
Deltas == {PositionDelta(b, q) : b \in BaseDeltas, q \in QuoteDeltas}

\* a call on a user's position; r is the call's result
CommitPosition(op, user, value, update_type, r) ==
    Commit(op, user, r.err, value, update_type,
           [perp_positions EXCEPT ![user] = r.position], r.market)

CommitUpdate(user, r) ==
    CommitPosition("update_position_and_market", user, r.value, r.update_type, r)

\* a base amount of i64::MIN is left out: abs() of it is outside the
\* arithmetic modelled here
UpdatePositionAndMarket(user, delta) ==
    /\ perp_positions[user].base_asset_amount + delta.base_asset_amount # I64_MIN
    /\ CommitUpdate(user,
           update_position_and_market(perp_positions[user], perp_market, delta))

UpdateQuoteAssetAmount(user, delta) ==
    CommitPosition("update_quote_asset_amount", user, 0, "None",
        update_quote_asset_amount(perp_positions[user], perp_market, delta))

SettleFundingPayment(user) ==
    CommitPosition("settle_funding_payment", user, 0, "None",
        settle_funding_payment(perp_positions[user], perp_market))

\* a valid oracle reading at price p
OracleAt(p) ==
    [price |-> p, confidence |-> 0, delay |-> 0,
     has_sufficient_number_of_data_points |-> TRUE]

\* an oracle reading without enough data points
OracleInvalid ==
    [price |-> 100, confidence |-> 0, delay |-> 0,
     has_sufficient_number_of_data_points |-> FALSE]

\* what the oracle account holds when funding is updated
OraclePriceData == {OracleAt(80), OracleAt(98), OracleAt(102), OracleInvalid}

\* the clock, in seconds after the last funding update
NowOffsets == {1800, 3600, 4200}

\* a call on the market alone; r is the call's result
CommitMarket(op, r) ==
    Commit(op, "none", r.err, r.value, "None", perp_positions, r.market)

UpdateFundingRate(oracle_price_data, offset, funding_paused, fee_pool_covers) ==
    CommitMarket("update_funding_rate",
        update_funding_rate(perp_market, oracle_price_data,
                            perp_market.amm.last_funding_rate_ts + offset,
                            funding_paused, fee_pool_covers))

InitState(configs) ==
    /\ \E config \in configs : perp_market = InitMarket(config)
    /\ perp_positions = [u \in Users |-> DefaultPosition]
    /\ ret = NoCall
    /\ mem = Committed
    /\ steps = 0
    /\ accounts = InitAccounts(<<0, 0, 0>>, FALSE)

PositionCalls ==
    \/ \E user \in Users, delta \in Deltas : UpdatePositionAndMarket(user, delta)
    \/ \E user \in Users, delta \in QuoteDeltas :
          UpdateQuoteAssetAmount(user, delta)
    \/ \E user \in Users : SettleFundingPayment(user)

(***************************************************************************)
(* Spec: position accounting on a market with step size 1, funding updated *)
(* on the hour from an oracle below or above the reserve price             *)
(***************************************************************************)
Init == InitState({[order_step_size |-> 1, long_spread |-> 0, short_spread |-> 0]})

Next ==
    \/ PositionCalls
    \/ \E p \in {98, 102}, fee_pool_covers \in BOOLEAN :
          UpdateFundingRate(OracleAt(p), ONE_HOUR, FALSE, fee_pool_covers)

Spec == Init /\ [][Next]_vars

(***************************************************************************)
(* SpecStep: the same calls on a market with order_step_size 2             *)
(***************************************************************************)
InitStep ==
    InitState({[order_step_size |-> 2, long_spread |-> 0, short_spread |-> 0]})

SpecStep == InitStep /\ [][Next]_vars

(***************************************************************************)
(* SpecFunding: the funding-rate updater under every gate condition, on    *)
(* markets with and without an execution premium, next to two users who    *)
(* open and trade positions                                                *)
(***************************************************************************)
InitFunding ==
    InitState({[order_step_size |-> 1, long_spread |-> 0, short_spread |-> 0],
               [order_step_size |-> 1, long_spread |-> 20000, short_spread |-> 0],
               [order_step_size |-> 1, long_spread |-> 0, short_spread |-> 20000]})

NextFunding ==
    \/ \E oracle_price_data \in OraclePriceData, offset \in NowOffsets,
          funding_paused \in BOOLEAN :
          UpdateFundingRate(oracle_price_data, offset, funding_paused, TRUE)
    \/ \E p \in {98, 102} :
          UpdateFundingRate(OracleAt(p), ONE_HOUR, FALSE, FALSE)
    \/ \E user \in Users, b \in {-2, 1} :
          UpdatePositionAndMarket(user, PositionDelta(b, 0))

SpecFunding == InitFunding /\ [][NextFunding]_vars

(***************************************************************************)
(* SpecFlip: one user trading deltas as large as the position width allows *)
(***************************************************************************)
WideDeltas ==
    {PositionDelta(b, q) : b \in {-3, -2, -1, 1, 2, 3}, q \in -3..3}

NextFlip == \E delta \in WideDeltas : UpdatePositionAndMarket("u1", delta)

SpecFlip == Init /\ [][NextFlip]_vars

(***************************************************************************)
(* SpecIx: the instructions of lib.rs on the same market                   *)
(***************************************************************************)
TradeAmounts == {1, 2}

Directions == {"Long", "Short"}

MarginStates == {"sufficient", "partial", "maintenance"}

CommitIx(op, user, r) ==
    CommitCalls(op, user, r.err, 0, "None", r.calls,
                [perp_positions EXCEPT ![user] = r.position], r.market)

OpenPosition(user, direction, quote_asset_amount, margin_ok) ==
    CommitIx("open_position", user,
             open_position(perp_positions[user], perp_market, direction,
                           quote_asset_amount, margin_ok))

ClosePosition(user) ==
    CommitIx("close_position", user,
             close_position(perp_positions[user], perp_market))

Liquidate(user, margin) ==
    CommitIx("liquidate", user,
             liquidate(perp_positions[user], perp_market, margin))

NextIx ==
    \/ \E user \in Users, direction \in Directions,
          quote_asset_amount \in TradeAmounts, margin_ok \in BOOLEAN :
          OpenPosition(user, direction, quote_asset_amount, margin_ok)
    \/ \E user \in Users : ClosePosition(user)
    \/ \E user \in Users, margin \in MarginStates : Liquidate(user, margin)
    \/ \E p \in {98, 102}, fee_pool_covers \in BOOLEAN :
          UpdateFundingRate(OracleAt(p), ONE_HOUR, FALSE, fee_pool_covers)

SpecIx == Init /\ [][NextIx]_vars

(***************************************************************************)
(* SpecIfStake: a staker adds to an insurance fund stake, requests,        *)
(* cancels and executes withdrawals while time passes and the vault gains  *)
(* settled revenue or pays for bankruptcies.  ret.request_pending records  *)
(* whether a request made by handle_request_remove_insurance_fund_stake    *)
(* has been neither executed nor cancelled.                                *)
(***************************************************************************)
\* the host writes the accounts back when the handler returned Ok; the clock
\* has moved to now either way
CommitAccounts(op, now, r) ==
    /\ steps < MaxSteps
    /\ steps' = steps + 1
    /\ ret' = [op |-> op, err |-> r.err, value |-> r.value,
               request_pending |->
                   IF r.err # Ok THEN ret.request_pending
                   ELSE op = "handle_request_remove_insurance_fund_stake"]
    /\ accounts' = [(IF r.err = Ok THEN r.accounts ELSE accounts)
                       EXCEPT !.clock.unix_timestamp = now]
    /\ UNCHANGED <<perp_market, perp_positions, mem>>

RequestRemoveInsuranceFundStake(market_index, amount, elapsed) ==
    LET now == accounts.clock.unix_timestamp + elapsed
    IN CommitAccounts("handle_request_remove_insurance_fund_stake", now,
           handle_request_remove_insurance_fund_stake(accounts, market_index,
                                                      amount, now))

CancelRequestRemoveInsuranceFundStake(market_index, elapsed) ==
    LET now == accounts.clock.unix_timestamp + elapsed
    IN CommitAccounts("handle_cancel_request_remove_insurance_fund_stake", now,
           handle_cancel_request_remove_insurance_fund_stake(accounts,
                                                             market_index, now))

RemoveInsuranceFundStake(market_index, elapsed) ==
    LET now == accounts.clock.unix_timestamp + elapsed
    IN CommitAccounts("handle_remove_insurance_fund_stake", now,
           handle_remove_insurance_fund_stake(accounts, market_index, now))

AddInsuranceFundStake(market_index, amount, settled, elapsed) ==
    LET now == accounts.clock.unix_timestamp + elapsed
    IN CommitAccounts("handle_add_insurance_fund_stake", now,
           handle_add_insurance_fund_stake(accounts, market_index, amount,
                                           settled))

\* between two instructions of the staker the vault receives settled revenue
\* or pays for a bankruptcy, which leaves at least one token in it
InsuranceFundVaultMoves(delta) ==
    /\ steps < MaxSteps
    /\ accounts.insurance_fund_vault.amount + delta \in 1..MaxVault
    /\ steps' = steps + 1
    /\ ret' = [ret EXCEPT !.op = "insurance_fund_vault_moves", !.err = Ok,
                          !.value = delta]
    /\ accounts' = [accounts EXCEPT !.insurance_fund_vault.amount = @ + delta]
    /\ UNCHANGED <<perp_market, perp_positions, mem>>

InitIfStake ==
    /\ perp_market = InitMarket([order_step_size |-> 1, long_spread |-> 0,
                                 short_spread |-> 0])
    /\ perp_positions = [u \in Users |-> DefaultPosition]
    /\ mem = Committed
    /\ steps = 0
    /\ ret = [op |-> "none", err |-> Ok, value |-> 0, request_pending |-> FALSE]
    /\ \E shares \in {<<4, 8, 8>>, <<2, 2, 2>>, <<3, 3, 3>>, <<3, 6, 7>>,
                     <<4, 8, 4>>},
          withdraw_paused \in BOOLEAN :
          accounts = InitAccounts(shares, withdraw_paused)

NextIfStake ==
    \/ \E market_index \in {0, 1}, amount \in {0, 1, 2, 3, 4, 8},
          elapsed \in {0, ONE_HOUR} :
          RequestRemoveInsuranceFundStake(market_index, amount, elapsed)
    \/ \E market_index \in {0, 1}, elapsed \in {0, ONE_HOUR} :
          CancelRequestRemoveInsuranceFundStake(market_index, elapsed)
    \/ \E market_index \in {0, 1}, elapsed \in {0, ONE_HOUR} :
          RemoveInsuranceFundStake(market_index, elapsed)
    \/ \E market_index \in {0, 1}, amount \in {0, 1, 2}, settled \in {0, 1} :
          AddInsuranceFundStake(market_index, amount, settled, 0)
    \/ \E delta \in {-2, 3} : InsuranceFundVaultMoves(delta)

SpecIfStake == InitIfStake /\ [][NextIfStake]_vars

(***************************************************************************)
(* SpecLedger: one user trades with open_position, the admin withdraws     *)
(* fees, and funding payments are recorded.  ret keeps the arguments of    *)
(* the last instruction, the record id it assigned, and how many trade and *)
(* funding payment records have been appended so far.                      *)
(***************************************************************************)
\* the accounts after initialize: no fees, empty histories, and a user whose
\* collateral is in the vault
InitLedgerAccounts(collateral, fee_numerator) ==
    [state |-> [fees_collected |-> 0,
                fees_withdrawn |-> 0,
                fee_numerator |-> fee_numerator,
                fee_denominator |-> 2,
                margin_ratio_initial |-> 950],
     user |-> [collateral |-> collateral, total_fee_paid |-> 0],
     collateral_vault |-> [amount |-> collateral],
     recipient |-> [amount |-> 0],
     trade_history |-> DefaultTradeHistory,
     funding_payment_history |-> DefaultFundingPaymentHistory]

\* the host writes the accounts back when the handler returned Ok
CommitLedger(op, args, err, record_id, accts, positions, market) ==
    /\ steps < MaxSteps
    /\ steps' = steps + 1
    /\ ret' = [op |-> op, args |-> args, err |-> err,
               record_id |-> IF err = Ok THEN record_id ELSE 0,
               trades |-> ret.trades
                   + (IF err = Ok /\ op = "open_position" THEN 1 ELSE 0),
               funding_payments |-> ret.funding_payments
                   + (IF err = Ok /\ op = "record_funding_payment" THEN 1 ELSE 0)]
    /\ IF err = Ok
       THEN /\ accounts' = accts
            /\ perp_positions' = positions
            /\ perp_market' = market
       ELSE UNCHANGED <<accounts, perp_positions, perp_market>>
    /\ UNCHANGED mem

\* r is what open_position returned
CommitTrade(args, r) ==
    CommitLedger("open_position", args, r.err,
                 TradeHistory_next_record_id(accounts.trade_history), r.accounts,
                 [perp_positions EXCEPT ![args.user] = r.position], r.market)

OpenPositionWithFee(user, direction, quote_asset_amount, margin_ratio_after) ==
    CommitTrade([user |-> user, direction |-> direction,
                 quote_asset_amount |-> quote_asset_amount,
                 margin_ratio_after |-> margin_ratio_after],
                open_position_with_fee(accounts, perp_positions[user],
                                       perp_market, direction,
                                       quote_asset_amount, margin_ratio_after))

\* r is what withdraw_fees returned
CommitWithdrawFees(args, r) ==
    CommitLedger("withdraw_fees", args, r.err, 0, r.accounts, perp_positions,
                 perp_market)

WithdrawFees(amount) ==
    CommitWithdrawFees([amount |-> amount], withdraw_fees(accounts, amount))

\* a funding payment is recorded under record_id
CommitFundingPayment(args, record_id) ==
    CommitLedger("record_funding_payment", args, Ok, record_id,
                 [accounts EXCEPT !.funding_payment_history =
                     FundingPaymentHistory_append(@,
                         [record_id |-> record_id,
                          funding_payment |-> args.funding_payment])],
                 perp_positions, perp_market)

\* a funding payment is recorded under the next record id of its history
RecordFundingPayment(funding_payment) ==
    CommitFundingPayment(
        [funding_payment |-> funding_payment],
        FundingPaymentHistory_next_record_id(accounts.funding_payment_history))

InitLedger ==
    /\ perp_market = InitMarket([order_step_size |-> 1, long_spread |-> 0,
                                 short_spread |-> 0])
    /\ perp_positions = [u \in Users |-> DefaultPosition]
    /\ mem = Committed
    /\ steps = 0
    /\ ret = [op |-> "none", args |-> <<>>, err |-> Ok, record_id |-> 0,
              trades |-> 0, funding_payments |-> 0]
    /\ \E collateral \in {1, 8} : accounts = InitLedgerAccounts(collateral, 2)

NextLedger ==
    \/ \E direction \in Directions, quote_asset_amount \in TradeAmounts,
          margin_ratio_after \in {949, 950} :
          OpenPositionWithFee("u1", direction, quote_asset_amount,
                              margin_ratio_after)
    \/ \E amount \in {1, 2} : WithdrawFees(amount)
    \/ \E funding_payment \in {-1} : RecordFundingPayment(funding_payment)

SpecLedger == InitLedger /\ [][NextLedger]_vars

(***************************************************************************)
(* SpecAmmMath: the functions of math/amm.rs, math/insurance.rs and        *)
(* math/spot_withdraw.rs and the revenue settlement applied                *)
(* to arguments.  A behaviour starts with the arguments of one call in ret *)
(* and ends when the call has returned, or when the shares a conversion    *)
(* returned have been converted back.                                      *)
(***************************************************************************)
Pending == "Pending"

\* a call about to be made
PendingCall(op, args) == [op |-> op, args |-> args, err |-> Pending, value |-> <<>>]

\* the call returns r
Return(op, r) ==
    /\ ret.op = op
    /\ ret.err = Pending
    /\ ret' = [ret EXCEPT !.err = r.err, !.value = r]
    /\ steps' = steps + 1
    /\ UNCHANGED <<perp_market, perp_positions, mem, accounts>>

CapToMaxSpreadArgs ==
    [long_spread : 0..12, short_spread : 0..12, max_spread : 0..14]

CapToMaxSpread ==
    Return("cap_to_max_spread",
           cap_to_max_spread(ret.args.long_spread, ret.args.short_spread,
                             ret.args.max_spread))

CalculateSpreadArgs ==
    [base_spread : {0, 10, 40},
     last_oracle_reserve_price_spread_pct : {-20, -3, 0, 3, 20},
     last_oracle_conf_pct : {0, 1},
     max_spread : {0, 5, 30, 500},
     quote_asset_reserve : {1000},
     terminal_quote_asset_reserve : {990, 1000, 1010},
     peg_multiplier : {100},
     net_base_asset_amount : {-10, 0, 10},
     reserve_price : {100},
     total_fee_minus_distributions : {-1, 0, 1, 50},
     base_asset_reserve : {1000},
     min_base_asset_reserve : {0, 995},
     max_base_asset_reserve : {1005, 2000}]

CalculateSpread == Return("calculate_spread", calculate_spread(ret.args))

SwapDirections == {"Add", "Remove"}

CalculateSwapOutputArgs ==
    [swap_amount : 0..U128_MAX, input_asset_reserve : 0..U128_MAX,
     direction : SwapDirections, invariant_sqrt : 0..U128_MAX]

CalculateSwapOutput ==
    Return("calculate_swap_output",
           calculate_swap_output(ret.args.swap_amount, ret.args.input_asset_reserve,
                                 ret.args.direction, ret.args.invariant_sqrt))

PositionDirections == {"Long", "Short"}

Spreads == {0, 1, 2, 3, 250000, 4000002}

CalculateSpreadReservesArgs ==
    [amm : [quote_asset_reserve : 0..U128_MAX, sqrt_k : {0, 1, 4, 7, 8, U128_MAX},
            long_spread : Spreads, short_spread : Spreads],
     direction : PositionDirections]

CalculateSpreadReserves ==
    Return("calculate_spread_reserves",
           calculate_spread_reserves(ret.args.amm, ret.args.direction))

CalculateBudgetedKScaleArgs ==
    {a \in [x : {0, 5000, 10000}, y : {0, 5000, 10000},
            budget : {-1000, -10, 0, 10, 1000},
            q : {100, 200}, d : {-2000, -1000, 0, 1000, 2000},
            k_pct_upper_bound : {1000, 1100}, k_pct_lower_bound : {900, 1000}] :
        a.x + a.d >= 0}
    \cup [x : {2500}, y : {10500}, budget : {-1, 1}, q : {100}, d : {-1000, 1000},
          k_pct_upper_bound : {1001}, k_pct_lower_bound : {999}]

CalculateBudgetedKScale ==
    Return("_calculate_budgeted_k_scale",
           _calculate_budgeted_k_scale(ret.args.x, ret.args.y, ret.args.budget,
                                       ret.args.q, ret.args.d,
                                       ret.args.k_pct_upper_bound,
                                       ret.args.k_pct_lower_bound))

\* an amm on its curve: the users' net base came out of base_asset_reserve
GetUpdateKResultArgs ==
    {[amm |-> [sqrt_k |-> k, net_base_asset_amount |-> n,
               base_asset_reserve |-> k - n],
      new_sqrt_k |-> new, bound_update |-> b] :
        k \in {0, 100, 400}, n \in {-120, -60, -30, 0, 30, 60},
        new \in (0..130) \cup {389, 390, 391, 400, 440}, b \in BOOLEAN}

GetUpdateKResult ==
    Return("get_update_k_result",
           get_update_k_result(ret.args.amm, ret.args.new_sqrt_k,
                               ret.args.bound_update))

\* oracle readings at and below zero, next to a valid one, on the amm of a
\* freshly initialized market
UpdateOraclePriceTwapArgs ==
    [amm : {InitMarket([order_step_size |-> 1, long_spread |-> 0,
                        short_spread |-> 0]).amm},
     now : {T0, T0 + 60, T0 + ONE_HOUR},
     oracle_price_data : [price : {-5, -1, 0, 1, 98}, confidence : {0, 2, 10},
                          delay : {0, 1},
                          has_sufficient_number_of_data_points : {TRUE}],
     precomputed_reserve_price : {100, 102}]

UpdateOraclePriceTwap ==
    Return("update_oracle_price_twap",
           update_oracle_price_twap(ret.args.amm, ret.args.now,
                                    ret.args.oracle_price_data,
                                    ret.args.precomputed_reserve_price))

\* amms whose bid TWAP is at or below the ask TWAP, with the mark TWAP at their
\* midpoint, and the trade price given (<<p>>) or absent (<<>>: the last oracle
\* price stands in for it)
UpdateMarkTwapArgs ==
    [amm : {[InitMarket([order_step_size |-> 1, long_spread |-> sp[1],
                         short_spread |-> sp[2]]).amm EXCEPT
                !.last_bid_price_twap = tw[1],
                !.last_ask_price_twap = tw[2],
                !.last_mark_price_twap = (tw[1] + tw[2]) \div 2,
                !.base_spread = sp[3],
                !.historical_oracle_data.last_oracle_price = o] :
             sp \in {<<0, 0, 0>>, <<4, 10, 3>>, <<10, 4, 1>>},
             tw \in {<<90, 100>>, <<100, 100>>, <<100, 110>>, <<90, 150>>},
             o \in {95, 100}},
     now : {T0, T0 + 60, T0 + ONE_HOUR, T0 + 2 * ONE_HOUR},
     precomputed_trade_price : {<<>>, <<60>>, <<97>>, <<100>>, <<103>>, <<160>>},
     direction : {"None", "Long", "Short"}]

UpdateMarkTwap ==
    Return("update_mark_twap",
           update_mark_twap(ret.args.amm, ret.args.now,
                            IF ret.args.precomputed_trade_price = <<>>
                            THEN ret.args.amm.historical_oracle_data.last_oracle_price
                            ELSE ret.args.precomputed_trade_price[1],
                            ret.args.direction))

\* token amounts, share totals and vault balances from zero up
VaultAmountToIfSharesArgs ==
    [amount : 0..MaxVault, total_if_shares : 0..MaxVault,
     insurance_fund_vault_balance : 0..MaxVault]

VaultAmountToIfShares ==
    Return("vault_amount_to_if_shares",
           vault_amount_to_if_shares(ret.args.amount, ret.args.total_if_shares,
                                     ret.args.insurance_fund_vault_balance))

\* the way back: the shares vault_amount_to_if_shares returned for an amount
\* within the vault balance are converted to a vault amount again
IfSharesToVaultAmount ==
    /\ ret.op = "vault_amount_to_if_shares"
    /\ ret.err = Ok
    /\ ret.args.amount <= ret.args.insurance_fund_vault_balance
    /\ LET r == if_shares_to_vault_amount(ret.value.value,
                                          ret.args.total_if_shares,
                                          ret.args.insurance_fund_vault_balance)
       IN ret' = [op |-> "if_shares_to_vault_amount",
                  args |-> [n_shares |-> ret.value.value,
                            total_if_shares |-> ret.args.total_if_shares,
                            insurance_fund_vault_balance |->
                                ret.args.insurance_fund_vault_balance],
                  err |-> r.err, value |-> r,
                  vault_amount |-> ret.args.amount]
    /\ steps' = steps + 1
    /\ UNCHANGED <<perp_market, perp_positions, mem, accounts>>

\* stakes with a withdraw request of n shares worth value at the request, in a
\* fund of total shares whose vault has moved to any balance since
CalculateIfSharesLostArgs ==
    {a \in [last_withdraw_request_shares : 0..MaxVault,
            last_withdraw_request_value : 0..MaxVault,
            total_shares : 0..MaxVault,
            insurance_fund_vault_balance : 0..MaxVault] :
        a.last_withdraw_request_shares <= a.total_shares}

CalculateIfSharesLost ==
    Return("calculate_if_shares_lost",
           calculate_if_shares_lost(
               [last_withdraw_request_shares |-> ret.args.last_withdraw_request_shares,
                last_withdraw_request_value |-> ret.args.last_withdraw_request_value],
               [insurance_fund |-> [total_shares |-> ret.args.total_shares]],
               ret.args.insurance_fund_vault_balance))

\* deposit TWAPs and thresholds around each other, and a TWAP of QUOTE_PRECISION
CalculateMinDepositTokenArgs ==
    [deposit_token_twap : (0..MaxTwap) \cup {QUOTE_PRECISION},
     withdraw_guard_threshold : (0..MaxTwap + 2) \cup {QUOTE_PRECISION + 1}]

CalculateMinDepositToken ==
    Return("calculate_min_deposit_token",
           calculate_min_deposit_token(ret.args.deposit_token_twap,
                                       ret.args.withdraw_guard_threshold))

\* spot markets within and beyond their limits, asked by no user, by a
\* depositor or by a borrower, with and without the amount withdrawn
CheckWithdrawLimitsArgs ==
    [spot_market : [deposit_balance : {10, 40}, borrow_balance : {0, 5, 38},
                    cumulative_deposit_interest : {2, 3},
                    cumulative_borrow_interest : {2},
                    deposit_token_twap : {40}, borrow_token_twap : {0, 5},
                    withdraw_guard_threshold : {0, 15, 20, 30}],
     user : {<<>>} \cup
            {<<u>> : u \in [total_deposits : {0, 5}, total_withdraws : {0, 6},
                            spot_position : [balance_type : {"Deposit", "Borrow"},
                                             scaled_balance : {0, 1, 2, 4},
                                             cumulative_deposits : {-1, 0}]]},
     token_amount_withdrawn : {<<>>, <<0>>, <<1>>, <<3>>}]

CheckWithdrawLimits ==
    Return("check_withdraw_limits",
           check_withdraw_limits(ret.args.spot_market, ret.args.user,
                                 ret.args.token_amount_withdrawn))

\* the markets of check_fee_collection, in the units of the model: the revenue
\* pool is part of the deposits, and the vault holds the deposit tokens
SettleRevenueToInsuranceFundArgs ==
    [spot_market : [deposit_balance : {6, 10},
                    borrow_balance : {0, 4, 9},
                    cumulative_deposit_interest : {2, 3},
                    cumulative_borrow_interest : {2, 3},
                    revenue_pool : [scaled_balance : {0, 1, 3, 6}],
                    insurance_fund : [revenue_settle_period : {1},
                                      last_revenue_settle_ts : {0}]],
     insurance_vault_amount : {0, 5},
     now : {0, 60}]

SettleRevenueToInsuranceFund ==
    Return("settle_revenue_to_insurance_fund",
           settle_revenue_to_insurance_fund(
               get_token_amount(ret.args.spot_market.deposit_balance,
                                ret.args.spot_market, "Deposit"),
               ret.args.insurance_vault_amount, ret.args.spot_market, ret.args.now))

InitAmmMath ==
    /\ perp_market = InitMarket([order_step_size |-> 1, long_spread |-> 0,
                                 short_spread |-> 0])
    /\ perp_positions = [u \in Users |-> DefaultPosition]
    /\ mem = Committed
    /\ steps = 0
    /\ accounts = InitAccounts(<<0, 0, 0>>, FALSE)
    /\ \/ \E args \in CapToMaxSpreadArgs :
             ret = PendingCall("cap_to_max_spread", args)
       \/ \E args \in CalculateSpreadArgs :
             ret = PendingCall("calculate_spread", args)
       \/ \E args \in CalculateSwapOutputArgs :
             ret = PendingCall("calculate_swap_output", args)
       \/ \E args \in CalculateSpreadReservesArgs :
             ret = PendingCall("calculate_spread_reserves", args)
       \/ \E args \in CalculateBudgetedKScaleArgs :
             ret = PendingCall("_calculate_budgeted_k_scale", args)
       \/ \E args \in GetUpdateKResultArgs :
             ret = PendingCall("get_update_k_result", args)
       \/ \E args \in UpdateOraclePriceTwapArgs :
             ret = PendingCall("update_oracle_price_twap", args)
       \/ \E args \in UpdateMarkTwapArgs :
             ret = PendingCall("update_mark_twap", args)
       \/ \E args \in VaultAmountToIfSharesArgs :
             ret = PendingCall("vault_amount_to_if_shares", args)
       \/ \E args \in CalculateIfSharesLostArgs :
             ret = PendingCall("calculate_if_shares_lost", args)
       \/ \E args \in CalculateMinDepositTokenArgs :
             ret = PendingCall("calculate_min_deposit_token", args)
       \/ \E args \in CheckWithdrawLimitsArgs :
             ret = PendingCall("check_withdraw_limits", args)
       \/ \E args \in SettleRevenueToInsuranceFundArgs :
             ret = PendingCall("settle_revenue_to_insurance_fund", args)

NextAmmMath ==
    \/ CapToMaxSpread
    \/ CalculateSpread
    \/ CalculateSwapOutput
    \/ CalculateSpreadReserves
    \/ CalculateBudgetedKScale
    \/ GetUpdateKResult
    \/ UpdateOraclePriceTwap
    \/ UpdateMarkTwap
    \/ VaultAmountToIfShares
    \/ IfSharesToVaultAmount
    \/ CalculateIfSharesLost
    \/ CalculateMinDepositToken
    \/ CheckWithdrawLimits
    \/ SettleRevenueToInsuranceFund

SpecAmmMath == InitAmmMath /\ [][NextAmmMath]_vars

(***************************************************************************)
(* Properties                                                              *)
(***************************************************************************)
RECURSIVE SumOf(_, _)
SumOf(f, S) ==
    IF S = {} THEN 0
    ELSE LET u == CHOOSE x \in S : TRUE IN f[u] + SumOf(f, S \ {u})

Longs == {u \in Users : perp_positions[u].base_asset_amount > 0}

Shorts == {u \in Users : perp_positions[u].base_asset_amount < 0}

LastCallOk(op) == ret.op = op /\ ret.err = Ok

\* C1: in every state the accounts reach through successful calls, the amm's
\* quote_entry_amount_long is the sum of quote_entry_amount over the positions
\* with base_asset_amount > 0, and quote_entry_amount_short the sum over the
\* positions with base_asset_amount < 0.
C1_QuoteEntryAggregates ==
    /\ perp_market.amm.quote_entry_amount_long =
          SumOf([u \in Users |-> perp_positions[u].quote_entry_amount], Longs)
    /\ perp_market.amm.quote_entry_amount_short =
          SumOf([u \in Users |-> perp_positions[u].quote_entry_amount], Shorts)

\* a Reduce has succeeded and left two longs with a non-zero entry aggregate
C1_Witness ==
    /\ LastCallOk("update_position_and_market")
    /\ ret.update_type = "Reduce"
    /\ Longs = Users
    /\ perp_market.amm.quote_entry_amount_long # 0

\* C2: in every state the accounts reach through successful calls, the amm's
\* base_asset_amount_long is the sum of base_asset_amount over the long
\* positions and base_asset_amount_short the sum over the short positions,
\* flips included.
C2_BaseAggregates ==
    /\ perp_market.amm.base_asset_amount_long =
          SumOf([u \in Users |-> perp_positions[u].base_asset_amount], Longs)
    /\ perp_market.amm.base_asset_amount_short =
          SumOf([u \in Users |-> perp_positions[u].base_asset_amount], Shorts)

\* a Flip has succeeded and each side holds a position
C2_Witness ==
    /\ LastCallOk("update_position_and_market")
    /\ ret.update_type = "Flip"
    /\ Longs # {}
    /\ Shorts # {}

MutatingCalls == {"increase", "reduce", "close"}

\* C3: whenever open_position, close_position or liquidate has called a
\* function that mutates the user's position (increase, reduce, close), it
\* has called settle_funding_payment before the first such call.
C3_SettleBeforeMutation ==
    ret.op \in {"open_position", "close_position", "liquidate"} =>
        \A i \in 1..Len(ret.calls) :
            ret.calls[i] \in MutatingCalls =>
                \E j \in 1..(i - 1) : ret.calls[j] = "settle_funding_payment"

\* the part of C3 that holds: open_position and close_position settle first
C3_OpenAndCloseSettleFirst ==
    ret.op \in {"open_position", "close_position"} =>
        /\ ret.calls # <<>>
        /\ ret.calls[1] = "settle_funding_payment"

\* liquidate has closed a position and returned Ok
C3_LiquidateClosed ==
    /\ LastCallOk("liquidate")
    /\ ret.calls = <<"close">>
    /\ perp_positions[ret.user].base_asset_amount = 0

\* the position holds base and its stored funding rate is not the
\* accumulator of its side
StaleFunding(position, market) ==
    /\ position.base_asset_amount # 0
    /\ position.last_cumulative_funding_rate #
          (IF position.base_asset_amount > 0
           THEN market.amm.cumulative_funding_rate_long
           ELSE market.amm.cumulative_funding_rate_short)

\* the step is a call of update_position_and_market with a non-zero base
\* delta on a position whose funding is stale
StaleCall ==
    /\ steps' = steps + 1
    /\ ret'.op = "update_position_and_market"
    /\ ret'.update_type # "None"
    /\ StaleFunding(perp_positions[ret'.user], perp_market)

\* C4 as stated: a call of update_position_and_market with a non-zero base
\* delta on a position with non-zero base and a stale
\* last_cumulative_funding_rate fails with InvalidPositionLastFundingRate.
C4_StaleFailsWithInvalidRate ==
    [][StaleCall => ret'.err = InvalidPositionLastFundingRate]_vars

\* C4 amended: such a call always fails, with InvalidPositionLastFundingRate
\* unless a checked arithmetic step of the call overflows first, which fails
\* it with a math error.
C4_StaleFails ==
    [][StaleCall => ret'.err \in {InvalidPositionLastFundingRate, MathError}]_vars

\* a call has been rejected for its stale funding rate
C4_Witness ==
    /\ ret.op = "update_position_and_market"
    /\ ret.err = InvalidPositionLastFundingRate
    /\ StaleFunding(perp_positions[ret.user], perp_market)

\* C5: when update_position_and_market returns an error, the position and
\* the market it was handed are as they were before the call.
C5_ErrorLeavesArgumentsUntouched ==
    (ret.op = "update_position_and_market" /\ ret.err # Ok) =>
        /\ mem.positions = perp_positions
        /\ mem.market = perp_market

\* C6: after every successful update_position_and_market the position's
\* base_asset_amount is a multiple of the market's order_step_size.
C6_BaseIsMultipleOfStepSize ==
    LastCallOk("update_position_and_market") =>
        is_multiple_of_step_size(
            Abs(perp_positions[ret.user].base_asset_amount),
            perp_market.amm.order_step_size)

\* C7: after a successful settle_funding_payment on a position with non-zero
\* base, and after a successful update_position_and_market with a non-zero
\* base delta that leaves non-zero base, the position's
\* last_cumulative_funding_rate is the accumulator of the side it is on.
C7_FundingRateOfResultingSide ==
    /\ LastCallOk("settle_funding_payment") =>
          ~StaleFunding(perp_positions[ret.user], perp_market)
    /\ (LastCallOk("update_position_and_market") /\ ret.update_type # "None") =>
          ~StaleFunding(perp_positions[ret.user], perp_market)

\* a Flip has succeeded while the two accumulators differ
C7_WitnessFlip ==
    /\ LastCallOk("update_position_and_market")
    /\ ret.update_type = "Flip"
    /\ perp_market.amm.cumulative_funding_rate_long #
          perp_market.amm.cumulative_funding_rate_short
    /\ perp_positions[ret.user].last_cumulative_funding_rate # 0

\* C8: in every state the accounts reach through successful calls,
\* number_of_users_with_base counts the positions with non-zero base and
\* number_of_users the positions with non-zero base or non-zero quote.
C8_UserCounters ==
    /\ perp_market.number_of_users_with_base =
          Cardinality({u \in Users : perp_positions[u].base_asset_amount # 0})
    /\ perp_market.number_of_users =
          Cardinality({u \in Users : is_for(perp_positions[u])})

\* a Close has succeeded and left quote behind, next to a user who holds base
C8_WitnessClose ==
    /\ LastCallOk("update_position_and_market")
    /\ ret.update_type = "Close"
    /\ perp_market.number_of_users = 2
    /\ perp_market.number_of_users_with_base = 1

\* funding is paused, the oracle is blocked, or the next funding boundary
\* has not been reached at the time last_funding_rate_ts + offset
GateUnsatisfied(oracle_price_data, offset, funding_paused) ==
    \/ funding_paused
    \/ block_operation(perp_market, oracle_price_data, DefaultGuardRails,
                       reserve_price(perp_market.amm))
    \/ on_the_hour_update(perp_market.amm.last_funding_rate_ts + offset,
                          perp_market.amm.last_funding_rate_ts,
                          perp_market.amm.funding_period) # 0

\* C9: a call of update_funding_rate whose gate is not satisfied (funding
\* paused, oracle blocked, or funding boundary not reached) returns Ok(false)
\* and leaves the market as it was, however often it is repeated.
C9_GatedCallIsNoOp ==
    [][\A oracle_price_data \in OraclePriceData, offset \in NowOffsets,
          funding_paused \in BOOLEAN, fee_pool_covers \in BOOLEAN :
          (/\ GateUnsatisfied(oracle_price_data, offset, funding_paused)
           /\ UpdateFundingRate(oracle_price_data, offset, funding_paused,
                                fee_pool_covers))
          => /\ ret'.err = Ok
             /\ ret'.value = FALSE
             /\ mem' = Committed
             /\ perp_market' = perp_market
             /\ perp_positions' = perp_positions]_vars

\* funding has been updated earlier in the period and a later call has
\* returned Ok(false)
C9_WitnessRepeatedGatedCall ==
    /\ LastCallOk("update_funding_rate")
    /\ ret.value = FALSE
    /\ perp_market.next_funding_rate_record_id = 2
    /\ steps = 3

\* C10: a call whose base delta is of the opposite sign and larger than the
\* position's base leaves base_asset_amount = old base + delta, sets
\* quote_entry_amount and quote_break_even_amount to
\* delta_quote - delta_quote * |old base| / |delta base|, and returns
\* old quote_entry_amount + (delta_quote - new quote_entry_amount).
C10_Flip ==
    [][\A delta \in WideDeltas :
          LET old == perp_positions["u1"]
              new == perp_positions'["u1"]
              new_exposure_quote ==
                  delta.quote_asset_amount
                    - TruncDiv(delta.quote_asset_amount * Abs(old.base_asset_amount),
                               Abs(delta.base_asset_amount))
          IN (/\ UpdatePositionAndMarket("u1", delta)
              /\ ret'.err = Ok
              /\ old.base_asset_amount # 0
              /\ Sign(old.base_asset_amount) # Sign(delta.base_asset_amount)
              /\ Abs(delta.base_asset_amount) > Abs(old.base_asset_amount))
             => /\ new.base_asset_amount =
                      old.base_asset_amount + delta.base_asset_amount
                /\ new.quote_entry_amount = new_exposure_quote
                /\ new.quote_break_even_amount = new_exposure_quote
                /\ ret'.value = old.quote_entry_amount
                      + (delta.quote_asset_amount - new.quote_entry_amount)]_vars

\* a 2-unit long hit by a 3-unit short for 3 quote: 1 unit short is left,
\* entered at the third of the fill that is new exposure
C10_WitnessFlip ==
    /\ LastCallOk("update_position_and_market")
    /\ ret.update_type = "Flip"
    /\ perp_positions["u1"].base_asset_amount = -1
    /\ perp_positions["u1"].quote_asset_amount = 3
    /\ perp_positions["u1"].quote_entry_amount = 1
    /\ perp_positions["u1"].quote_break_even_amount = 1
    /\ ret.value # 0

\* C11: a successful Reduce or Close takes the share entry * |delta base| /
\* |base before| (integer division toward zero) out of quote_entry_amount and,
\* by the same rule, out of quote_break_even_amount; it returns the pnl
\* (entry before - entry after) + delta quote; a Close leaves base,
\* quote_entry_amount and quote_break_even_amount all 0.
C11_ReduceAndClose ==
    [][\A delta \in WideDeltas :
          LET old == perp_positions["u1"]
              new == perp_positions'["u1"]
              db == Abs(delta.base_asset_amount)
              base_before == Abs(old.base_asset_amount)
          IN (/\ old.base_asset_amount # 0
              /\ Sign(old.base_asset_amount) # Sign(delta.base_asset_amount)
              /\ db <= base_before
              /\ UpdatePositionAndMarket("u1", delta)
              /\ ret'.err = Ok)
             => /\ ret'.update_type = IF db = base_before THEN "Close" ELSE "Reduce"
                /\ new.base_asset_amount = old.base_asset_amount + delta.base_asset_amount
                /\ new.quote_entry_amount = old.quote_entry_amount
                      - TruncDiv(old.quote_entry_amount * db, base_before)
                /\ new.quote_break_even_amount = old.quote_break_even_amount
                      - TruncDiv(old.quote_break_even_amount * db, base_before)
                /\ ret'.value = (old.quote_entry_amount - new.quote_entry_amount)
                      + delta.quote_asset_amount
                /\ db = base_before
                      => /\ new.base_asset_amount = 0
                         /\ new.quote_entry_amount = 0
                         /\ new.quote_break_even_amount = 0]_vars

\* C11 witness: a successful Reduce has left part of a negative entry amount
\* on a position that is still open
C11_WitnessReduce ==
    /\ LastCallOk("update_position_and_market")
    /\ ret.update_type = "Reduce"
    /\ perp_positions["u1"].base_asset_amount # 0
    /\ perp_positions["u1"].quote_entry_amount < 0
    /\ ret.value # 0

\* C12 as stated: across the calls, neither funding accumulator ever decreases
C12_AccumulatorsNeverDecrease ==
    [][/\ perp_market'.amm.cumulative_funding_rate_long
             >= perp_market.amm.cumulative_funding_rate_long
       /\ perp_market'.amm.cumulative_funding_rate_short
             >= perp_market.amm.cumulative_funding_rate_short]_vars

\* C12: the funding accumulators are signed running sums: they move only on
\* an update_funding_rate call that returns Ok(true), each by that call's
\* funding_rate_long / funding_rate_short, and in the direction of the spread
\* of the two TWAPs: they do not decrease when the mark TWAP is at or above
\* the oracle TWAP, and do not increase when it is at or below it.
C12_AccumulatorsFollowSpread ==
    [][LET old == perp_market.amm
           new == perp_market'.amm
           price_spread == new.last_mark_price_twap
                             - new.historical_oracle_data.last_oracle_price_twap
           moved_long == new.cumulative_funding_rate_long
                           - old.cumulative_funding_rate_long
           moved_short == new.cumulative_funding_rate_short
                            - old.cumulative_funding_rate_short
       IN IF ret'.op = "update_funding_rate" /\ ret'.err = Ok /\ ret'.value = TRUE
          THEN /\ moved_long = new.last_funding_rate_long
               /\ moved_short = new.last_funding_rate_short
               /\ price_spread >= 0 => moved_long >= 0 /\ moved_short >= 0
               /\ price_spread <= 0 => moved_long <= 0 /\ moved_short <= 0
          ELSE moved_long = 0 /\ moved_short = 0]_vars

\* C12 witness: a successful update with the mark TWAP below the oracle TWAP
\* has taken both accumulators below zero
C12_WitnessDecrease ==
    /\ LastCallOk("update_funding_rate")
    /\ ret.value = TRUE
    /\ perp_market.amm.last_mark_price_twap
         < perp_market.amm.historical_oracle_data.last_oracle_price_twap
    /\ perp_market.amm.cumulative_funding_rate_long < 0
    /\ perp_market.amm.cumulative_funding_rate_short < 0

\* C13: after every successful funding update the recorded funding rate is
\* within the clamp: |funding_rate| <= (oracle_price_twap / 33)
\* * FUNDING_RATE_BUFFER / period_adjustment, whatever the mark TWAP is.
C13_FundingRateClamped ==
    (LastCallOk("update_funding_rate") /\ ret.value = TRUE)
        => LET amm == perp_market.amm
               oracle_price_twap == amm.historical_oracle_data.last_oracle_price_twap
               period_adjustment ==
                   (24 * ONE_HOUR) \div Max(ONE_HOUR, amm.funding_period)
           IN Abs(amm.last_funding_rate)
                 <= TruncDiv(TruncDiv(oracle_price_twap, 33) * FUNDING_RATE_BUFFER,
                             period_adjustment)

\* C13 witness: a successful update whose TWAPs are further apart than 1/33 of
\* the oracle TWAP has recorded exactly the clamp as its funding rate
C13_WitnessClampBites ==
    /\ LastCallOk("update_funding_rate")
    /\ ret.value = TRUE
    /\ LET amm == perp_market.amm
           oracle_price_twap == amm.historical_oracle_data.last_oracle_price_twap
       IN /\ Abs(amm.last_mark_price_twap - oracle_price_twap)
                > TruncDiv(oracle_price_twap, 33)
          /\ Abs(amm.last_funding_rate) = TruncDiv(oracle_price_twap, 33)
          /\ amm.last_funding_rate # 0

\* C14: settle_funding_payment on a user whose position has base_asset_amount
\* 0, or who has no position in the market, returns Ok and changes neither
\* the position nor any market field, however far the accumulators have moved.
C14_FlatPositionIsSkipped ==
    [][\A user \in Users :
          (/\ perp_positions[user].base_asset_amount = 0
           /\ ret'.op = "settle_funding_payment"
           /\ ret'.user = user
           /\ SettleFundingPayment(user))
          => /\ ret'.err = Ok
             /\ perp_positions' = perp_positions
             /\ perp_market' = perp_market
             /\ mem' = Committed]_vars

\* C14 witness: settle_funding_payment has returned on a user who holds quote
\* but no base, and whose stored rate differs from both accumulators
C14_WitnessFlatAndStale ==
    /\ LastCallOk("settle_funding_payment")
    /\ LET position == perp_positions[ret.user]
       IN /\ position.base_asset_amount = 0
          /\ position.quote_asset_amount # 0
          /\ position.last_cumulative_funding_rate
               # perp_market.amm.cumulative_funding_rate_long
          /\ position.last_cumulative_funding_rate
               # perp_market.amm.cumulative_funding_rate_short

\* the last call was op and returned Ok
Returned(op) == ret.op = op /\ ret.err = Ok

\* C15: every successful calculate_spread call returns long_spread +
\* short_spread <= max(max_spread, |last_oracle_reserve_price_spread_pct|),
\* for all values of the other inputs.
C15_SpreadSumCapped ==
    Returned("calculate_spread")
        => ret.value.long_spread + ret.value.short_spread
              <= Max(ret.args.max_spread,
                     Abs(ret.args.last_oracle_reserve_price_spread_pct))

\* C15 witness: a successful call whose scaled spreads summed to more than
\* the cap, and whose result sums to exactly the cap
C15_WitnessCapBites ==
    /\ Returned("calculate_spread")
    /\ scaled_spreads(ret.args).long_spread + scaled_spreads(ret.args).short_spread
         > spread_cap(ret.args)
    /\ ret.value.long_spread + ret.value.short_spread = spread_cap(ret.args)
    /\ ret.value.long_spread > 0
    /\ ret.value.short_spread > 0

\* C16 as stated: above the cap, the smaller side is shrunk only when the
\* larger side is shrunk as well
C16_LargerSideShrinksFirst ==
    (/\ Returned("cap_to_max_spread")
     /\ ret.args.long_spread + ret.args.short_spread > ret.args.max_spread)
        => LET larger_is_long == ret.args.long_spread > ret.args.short_spread
               larger_shrunk == IF larger_is_long
                                THEN ret.value.long_spread < ret.args.long_spread
                                ELSE ret.value.short_spread < ret.args.short_spread
               smaller_shrunk == IF larger_is_long
                                 THEN ret.value.short_spread < ret.args.short_spread
                                 ELSE ret.value.long_spread < ret.args.long_spread
           IN smaller_shrunk => larger_shrunk

\* C16: above the cap, cap_to_max_spread keeps the larger side (the short
\* side on a tie) up to max_spread and leaves the other side the remainder:
\* the total comes down to exactly max_spread, the smaller side always
\* shrinks, and the larger side shrinks only when it alone exceeds max_spread.
C16_SmallerSideShrinksFirst ==
    (/\ Returned("cap_to_max_spread")
     /\ ret.args.long_spread + ret.args.short_spread > ret.args.max_spread)
        => LET larger_is_long == ret.args.long_spread > ret.args.short_spread
               larger == IF larger_is_long THEN ret.args.long_spread
                         ELSE ret.args.short_spread
               smaller == IF larger_is_long THEN ret.args.short_spread
                          ELSE ret.args.long_spread
               new_larger == IF larger_is_long THEN ret.value.long_spread
                             ELSE ret.value.short_spread
               new_smaller == IF larger_is_long THEN ret.value.short_spread
                              ELSE ret.value.long_spread
           IN /\ new_larger = Min(ret.args.max_spread, larger)
              /\ new_smaller = ret.args.max_spread - new_larger
              /\ new_smaller < smaller \/ smaller = 0
              /\ new_larger < larger <=> larger > ret.args.max_spread

\* C16 witness: long 10 and short 5 capped at 12 come back as 10 and 2
C16_WitnessSmallerShrunk ==
    /\ Returned("cap_to_max_spread")
    /\ ret.args = [long_spread |-> 10, short_spread |-> 5, max_spread |-> 12]
    /\ ret.value.long_spread = 10
    /\ ret.value.short_spread = 2

\* the last call was op and has returned, with whatever outcome
Called(op) == ret.op = op /\ ret.err # Pending

\* C17 as stated: Remove with swap_amount > input_asset_reserve fails with
\* TradeSizeTooLarge and returns no reserves
C17_OversizedRemoveIsTradeSizeTooLarge ==
    (/\ Called("calculate_swap_output")
     /\ ret.args.direction = "Remove"
     /\ ret.args.swap_amount > ret.args.input_asset_reserve)
        => ret.err = TradeSizeTooLarge /\ ret.value.reserves = <<>>

\* C17: Remove with swap_amount > input_asset_reserve always fails and returns
\* no reserves: with TradeSizeTooLarge, unless invariant_sqrt squared does not
\* fit U192, in which case the math error of the squaring comes first.
C17_OversizedRemoveFails ==
    (/\ Called("calculate_swap_output")
     /\ ret.args.direction = "Remove"
     /\ ret.args.swap_amount > ret.args.input_asset_reserve)
        => /\ ret.value.reserves = <<>>
           /\ ret.err = IF ret.args.invariant_sqrt * ret.args.invariant_sqrt > U192_MAX
                        THEN MathError
                        ELSE TradeSizeTooLarge

\* C17 witness: an oversized Remove on an invariant that fits has failed with
\* TradeSizeTooLarge
C17_WitnessTooLarge ==
    /\ Called("calculate_swap_output")
    /\ ret.args = [swap_amount |-> 5, input_asset_reserve |-> 4,
                   direction |-> "Remove", invariant_sqrt |-> 4]
    /\ ret.err = TradeSizeTooLarge

\* C18: Remove with swap_amount = input_asset_reserve returns Ok or an
\* explicit error, never panics, and never returns a new input reserve or a
\* new output reserve that is zero or negative.
C18_RemoveAllNeverReturnsEmptyReserve ==
    (/\ Called("calculate_swap_output")
     /\ ret.args.direction = "Remove"
     /\ ret.args.swap_amount = ret.args.input_asset_reserve)
        => /\ ret.err # Panic
           /\ ret.err = Ok => /\ ret.value.reserves[1] > 0
                              /\ ret.value.reserves[2] > 0

\* C18 witness: removing the whole input reserve has ended in the math error
\* of the division by the emptied reserve
C18_WitnessRemoveAll ==
    /\ Called("calculate_swap_output")
    /\ ret.args = [swap_amount |-> 4, input_asset_reserve |-> 4,
                   direction |-> "Remove", invariant_sqrt |-> 4]
    /\ ret.err = MathError
    /\ ret.value.reserves = <<>>

\* C19 as stated: calculate_spread_reserves never panics; for every AMM state
\* and every long_spread / short_spread, 0 and 1 included, it returns Ok or
\* an explicit error
C19_SpreadReservesNeverPanics ==
    Called("calculate_spread_reserves") => ret.err # Panic

\* C20 as stated: _calculate_budgeted_k_scale never panics; for every
\* combination of reserves, inventory d (0 included), budget (0 included),
\* peg and bounds it returns Ok or an explicit error
C20_BudgetedKScaleNeverPanics ==
    Called("_calculate_budgeted_k_scale") => ret.err # Panic

\* C21 as stated: every Ok((numerator, denominator)) of
\* _calculate_budgeted_k_scale has k_pct_lower_bound / K_BPS_UPDATE_SCALE
\* <= numerator / denominator <= k_pct_upper_bound / K_BPS_UPDATE_SCALE
C21_ScaleWithinBounds ==
    Returned("_calculate_budgeted_k_scale")
        => LET numerator == ret.value.value[1]
               denominator == ret.value.value[2]
           IN /\ ret.args.k_pct_lower_bound * denominator
                    <= numerator * K_BPS_UPDATE_SCALE
              /\ numerator * K_BPS_UPDATE_SCALE
                    <= ret.args.k_pct_upper_bound * denominator

\* new_sqrt_k is more than 2.5% below the amm's sqrt_k
DecreaseOver2_5Pct == ret.args.new_sqrt_k * 1000 < ret.args.amm.sqrt_k * 975

\* C22: with bound_update = true, get_update_k_result fails with
\* InvalidUpdateK whenever new_sqrt_k is more than 2.5% below the current
\* sqrt_k; with bound_update = false such a decrease is not rejected on that
\* ground: it fails with InvalidUpdateK only when |net_base_asset_amount|
\* exceeds new_sqrt_k.
C22_BoundedDecrease ==
    (Called("get_update_k_result") /\ DecreaseOver2_5Pct)
        => IF ret.args.bound_update
           THEN ret.err = InvalidUpdateK
           ELSE ret.err = InvalidUpdateK
                   <=> Abs(ret.args.amm.net_base_asset_amount) > ret.args.new_sqrt_k

\* C22 witness: sqrt_k taken from 100 to 50 unbounded, with a net position of
\* 30, has returned Ok
C22_WitnessUnboundedDecrease ==
    /\ Returned("get_update_k_result")
    /\ ~ret.args.bound_update
    /\ ret.args.amm.sqrt_k = 100
    /\ ret.args.amm.net_base_asset_amount = 30
    /\ ret.args.new_sqrt_k = 50
    /\ ret.value.result.sqrt_k = 50

\* C23 as stated: every Ok result has base_asset_reserve >=
\* |net_base_asset_amount|
C23_BaseReserveCoversNet ==
    Returned("get_update_k_result")
        => ret.value.result.base_asset_reserve
              >= Abs(ret.args.amm.net_base_asset_amount)

\* C23: get_update_k_result fails with InvalidUpdateK whenever new_sqrt_k is
\* smaller than |net_base_asset_amount|, bounded or not (on an amm whose
\* sqrt_k is not 0); hence every Ok result has sqrt_k >=
\* |net_base_asset_amount|.
C23_SqrtKCoversNet ==
    Called("get_update_k_result")
        => /\ (/\ Abs(ret.args.amm.net_base_asset_amount) > ret.args.new_sqrt_k
               /\ ret.args.amm.sqrt_k # 0)
                  => ret.err = InvalidUpdateK
           /\ ret.err = Ok
                  => ret.value.result.sqrt_k
                        >= Abs(ret.args.amm.net_base_asset_amount)

\* C23 witness: an Ok result whose sqrt_k covers the net position while its
\* base_asset_reserve does not
C23_WitnessBaseBelowNet ==
    /\ Returned("get_update_k_result")
    /\ ret.value.result.sqrt_k >= Abs(ret.args.amm.net_base_asset_amount)
    /\ ret.value.result.base_asset_reserve
          < Abs(ret.args.amm.net_base_asset_amount)

\* C24 as stated: when the raw oracle price or the normalised oracle price is
\* not positive, update_oracle_price_twap returns Ok with the previous
\* last_oracle_price_twap and leaves every historical_oracle_data field
\* unchanged
C24_NonPositiveOracleIsSkipped ==
    (/\ Called("update_oracle_price_twap")
     /\ \/ ret.args.oracle_price_data.price <= 0
        \/ normalise_oracle_price(ret.args.amm, ret.args.oracle_price_data,
                                  ret.args.precomputed_reserve_price) <= 0)
        => /\ ret.err = Ok
           /\ ret.value.value
                 = ret.args.amm.historical_oracle_data.last_oracle_price_twap
           /\ ret.value.amm.historical_oracle_data
                 = ret.args.amm.historical_oracle_data

C26_BidMarkAskOrdered ==
    (/\ Returned("update_mark_twap")
     /\ ret.args.amm.last_bid_price_twap <= ret.args.amm.last_ask_price_twap)
        => LET amm == ret.value.amm
           IN /\ amm.last_bid_price_twap <= amm.last_ask_price_twap
              /\ amm.last_mark_price_twap
                    = (amm.last_bid_price_twap + amm.last_ask_price_twap) \div 2
              /\ amm.last_bid_price_twap <= amm.last_mark_price_twap
              /\ amm.last_mark_price_twap <= amm.last_ask_price_twap
              /\ ret.value.value = amm.last_mark_price_twap

\* a call without a precomputed trade price moved both TWAPs and left them
\* apart
C26_WitnessTwapsMovedApart ==
    /\ Returned("update_mark_twap")
    /\ ret.args.precomputed_trade_price = <<>>
    /\ ret.value.amm.last_bid_price_twap # ret.args.amm.last_bid_price_twap
    /\ ret.value.amm.last_ask_price_twap # ret.args.amm.last_ask_price_twap
    /\ ret.value.amm.last_bid_price_twap < ret.value.amm.last_ask_price_twap

\* C29 as stated: vault_amount_to_if_shares returns exactly amount whenever
\* total_if_shares is 0, and floor(amount * total_if_shares / vault_balance)
\* otherwise (read on a vault that holds tokens)
C29_BootstrapOnZeroShares ==
    Called("vault_amount_to_if_shares")
        => IF ret.args.total_if_shares = 0
           THEN ret.err = Ok /\ ret.value.value = ret.args.amount
           ELSE ret.args.insurance_fund_vault_balance > 0
                   => /\ ret.err = Ok
                      /\ ret.value.value
                            = (ret.args.amount * ret.args.total_if_shares)
                                 \div ret.args.insurance_fund_vault_balance

\* C30 as stated: for x <= balance and total >= 0, converting x to shares and
\* the shares back succeeds both ways and gives x when total is 0, and within
\* ceil(balance / total) of x when total > 0
C30_RoundTripWithinRounding ==
    /\ (/\ Called("vault_amount_to_if_shares")
        /\ ret.args.amount <= ret.args.insurance_fund_vault_balance)
          => ret.err = Ok
    /\ ret.op = "if_shares_to_vault_amount"
          => /\ ret.err = Ok
             /\ LET total == ret.args.total_if_shares
                    balance == ret.args.insurance_fund_vault_balance
                IN IF total = 0
                   THEN ret.value.value = ret.vault_amount
                   ELSE Abs(ret.value.value - ret.vault_amount)
                           <= (balance + total - 1) \div total

\* C27: while a withdraw request is pending on the stake, every further
\* handle_request_remove_insurance_fund_stake fails and leaves the stake and
\* its pending request as they are; a request succeeds only when none is
\* pending, that is at first or after a remove or a cancel has succeeded
C27_PendingRequestBlocksRequests ==
    [][(/\ steps' = steps + 1
        /\ ret'.op = "handle_request_remove_insurance_fund_stake"
        /\ ret.request_pending)
          => /\ ret'.err # Ok
             /\ ret'.request_pending
             /\ accounts'.insurance_fund_stake = accounts.insurance_fund_stake
             /\ accounts.insurance_fund_stake.last_withdraw_request_shares # 0]_vars

\* a request made while another one is pending has failed
C27_WitnessSecondRequestFailed ==
    /\ ret.op = "handle_request_remove_insurance_fund_stake"
    /\ ret.err = DefaultError
    /\ ret.request_pending
    /\ accounts.insurance_fund_stake.last_withdraw_request_shares > 0

C31_ForfeitCapsValue ==
    Returned("calculate_if_shares_lost")
        => LET lost == ret.value.value
               n_shares == ret.args.last_withdraw_request_shares
               amount == if_shares_to_vault_amount(
                             n_shares - lost, ret.args.total_shares - lost,
                             ret.args.insurance_fund_vault_balance)
           IN /\ lost >= 0
              /\ lost <= n_shares
              /\ amount.err = Ok
              /\ amount.value <= ret.args.last_withdraw_request_value

\* the vault has grown since the request: part of the requested shares, not
\* all of them, is forfeited
C31_WitnessPartForfeited ==
    /\ Returned("calculate_if_shares_lost")
    /\ ret.value.value > 0
    /\ ret.value.value < ret.args.last_withdraw_request_shares
    /\ ret.args.last_withdraw_request_value > 0

\* C32 as stated: every successful handle_remove_insurance_fund_stake leaves
\* more than 0 tokens in the insurance fund vault once the withdrawn amount
\* has been sent
C32_RemoveLeavesVaultFunded ==
    (ret.op = "handle_remove_insurance_fund_stake" /\ ret.err = Ok)
        => accounts.insurance_fund_vault.amount > 0

\* C40: handle_add_insurance_fund_stake fails, and changes neither the stake
\* nor the vault, whenever the stake's last_withdraw_request_shares or
\* last_withdraw_request_value is not 0; it succeeds only when no request is
\* pending, that is at first or after a remove or a cancel has succeeded
C40_PendingRequestBlocksAdd ==
    [][(/\ steps' = steps + 1
        /\ ret'.op = "handle_add_insurance_fund_stake"
        /\ \/ accounts.insurance_fund_stake.last_withdraw_request_shares # 0
           \/ accounts.insurance_fund_stake.last_withdraw_request_value # 0
           \/ ret.request_pending)
          => /\ ret'.err # Ok
             /\ accounts'.insurance_fund_stake = accounts.insurance_fund_stake
             /\ accounts'.insurance_fund_vault = accounts.insurance_fund_vault
             /\ accounts'.user_token_account = accounts.user_token_account
             /\ accounts'.spot_market = accounts.spot_market]_vars

\* an add attempted while a request is pending has been refused; the staker
\* still holds tokens to stake
C40_WitnessAddRefusedWhilePending ==
    /\ ret.op = "handle_add_insurance_fund_stake"
    /\ ret.err = DefaultError
    /\ ret.request_pending
    /\ accounts.insurance_fund_stake.last_withdraw_request_shares # 0
    /\ accounts.user_token_account.amount > 0

SmallDepositor ==
    /\ ret.args.user # <<>>
    /\ LET user == ret.args.user[1]
       IN /\ user.total_deposits - user.total_withdraws >= 0
          /\ user.spot_position.balance_type = "Deposit"
          /\ 10 * get_token_amount(user.spot_position.scaled_balance,
                                   ret.args.spot_market, "Deposit")
                < ret.args.spot_market.withdraw_guard_threshold

C37_RecordIdsCountUp ==
    LET trades == accounts.trade_history
        payments == accounts.funding_payment_history
    IN /\ trades.head \in 0..(HistorySize - 1)
       /\ payments.head \in 0..(HistorySize - 1)
       /\ trades.head = ret.trades % HistorySize
       /\ payments.head = ret.funding_payments % HistorySize
       /\ TradeHistory_next_record_id(trades) = ret.trades + 1
       /\ FundingPaymentHistory_next_record_id(payments)
             = ret.funding_payments + 1
       /\ (ret.op = "open_position" /\ ret.err = Ok)
             => ret.record_id = ret.trades
       /\ (ret.op = "record_funding_payment" /\ ret.err = Ok)
             => ret.record_id = ret.funding_payments

\* a trade recorded after the trade history has wrapped around
C37_WitnessWrappedAround ==
    /\ ret.op = "open_position"
    /\ ret.err = Ok
    /\ ret.trades > HistorySize
    /\ ret.record_id = ret.trades
    /\ accounts.trade_history.head = ret.trades % HistorySize

\* C38: whatever is traded and withdrawn, state.fees_withdrawn stays at or
\* below state.fees_collected / SHARE_OF_FEES_ALLOCATED_TO_REPEG_DENOMINATOR,
\* and a withdraw_fees call whose amount would take it beyond that share fails
\* with AdminWithdrawTooLarge and leaves the vault, the recipient and
\* fees_withdrawn as they were
C38_FeesWithdrawnWithinShare ==
    [][/\ accounts'.state.fees_withdrawn
             <= accounts'.state.fees_collected
                   \div SHARE_OF_FEES_ALLOCATED_TO_REPEG_DENOMINATOR
       /\ (/\ steps' = steps + 1
           /\ ret'.op = "withdraw_fees"
           /\ accounts.state.fees_withdrawn + ret'.args.amount
                 > accounts.state.fees_collected
                      \div SHARE_OF_FEES_ALLOCATED_TO_REPEG_DENOMINATOR)
             => /\ ret'.err = AdminWithdrawTooLarge
                /\ accounts' = accounts]_vars

\* fees were collected and a part withdrawn, and a further withdrawal is
\* refused as too large
C38_WitnessWithdrawRefused ==
    /\ ret.op = "withdraw_fees"
    /\ ret.err = AdminWithdrawTooLarge
    /\ accounts.state.fees_withdrawn > 0
    /\ accounts.recipient.amount = accounts.state.fees_withdrawn
    /\ accounts.state.fees_collected > accounts.state.fees_withdrawn

\* the trade of the step opens a position, adds to one, or closes one and
\* opens on the other side a position of at least the notional closed
C39_RiskIncreasing ==
    LET position == perp_positions[ret'.args.user]
        base_asset_value == calculate_base_asset_value(position)
    IN \/ position.base_asset_amount = 0
       \/ position.base_asset_amount > 0 /\ ret'.args.direction = "Long"
       \/ position.base_asset_amount < 0 /\ ret'.args.direction = "Short"
       \/ ret'.args.quote_asset_amount - base_asset_value >= base_asset_value

\* what the open_position of the step returns when the margin ratio after it
\* is margin_ratio_initial
C39_ErrWithMargin ==
    open_position_with_fee(accounts, perp_positions[ret'.args.user], perp_market,
                           ret'.args.direction, ret'.args.quote_asset_amount,
                           accounts.state.margin_ratio_initial).err

\* C39: an open_position that opens, increases or reverses into a position of
\* at least the previous notional succeeds only with a margin ratio after the
\* trade of at least state.margin_ratio_initial, and with a lower one it fails
\* with InsufficientCollateral once the trade and the fee have gone through; a
\* trade that is none of these returns what it returns with enough margin
C39_RiskIncreasingTradeNeedsInitialMargin ==
    [][(steps' = steps + 1 /\ ret'.op = "open_position")
          => IF ~C39_RiskIncreasing
             THEN ret'.err = C39_ErrWithMargin
             ELSE IF ret'.args.margin_ratio_after
                        >= accounts.state.margin_ratio_initial
             THEN ret'.err = C39_ErrWithMargin
             ELSE /\ ret'.err # Ok
                  /\ C39_ErrWithMargin = Ok => ret'.err = InsufficientCollateral
                  /\ C39_ErrWithMargin # Ok => ret'.err = C39_ErrWithMargin
                  /\ UNCHANGED <<accounts, perp_positions, perp_market>>]_vars

\* a trade that adds to a position, or reverses one, is refused for lack of
\* margin after an earlier trade went through
C39_WitnessRefusedForMargin ==
    /\ ret.op = "open_position"
    /\ ret.err = InsufficientCollateral
    /\ ret.args.margin_ratio_after < accounts.state.margin_ratio_initial
    /\ perp_positions[ret.args.user].base_asset_amount # 0
    /\ accounts.state.fees_collected > 0

====
